---- MODULE Spec2Model ----
(***************************************************************************)
(* Model of pbak albums (src/lib/pbak/albums.py): the run() procedure that *)
(* syncs Lightroom Classic collections to Immich albums, promotes assets   *)
(* to the best format of their stem group and stacks related files.        *)
(*                                                                         *)
(* Strings are sequences of one-character strings, so that the filename    *)
(* functions (normalize_stem, the extension split, format_priority) are    *)
(* computed character by character as the code computes them.              *)
(***************************************************************************)
EXTENDS Integers, Sequences, FiniteSets, TLC

\* ------------------------------------------------------------------------
\* Characters and strings
\* ------------------------------------------------------------------------

UpperChars == <<"A","B","C","D","E","F","G","H","I","J","K","L","M",
                "N","O","P","Q","R","S","T","U","V","W","X","Y","Z">>

LowerChars == <<"a","b","c","d","e","f","g","h","i","j","k","l","m",
                "n","o","p","q","r","s","t","u","v","w","x","y","z">>

Digits == {"0","1","2","3","4","5","6","7","8","9"}

\* str.lower() on the upper-case letters
LowerOfUpper == [c \in { UpperChars[i] : i \in 1..26 } |->
                    LowerChars[CHOOSE i \in 1..26 : UpperChars[i] = c]]

\* str.lower() on one character
LowerChar(c) == IF c \in DOMAIN LowerOfUpper THEN LowerOfUpper[c] ELSE c

\* str.lower()
Lower(s) == [i \in 1..Len(s) |-> LowerChar(s[i])]

\* code point order of the characters that occur in file names
\* ("-" < "." < "/" < digits < upper case < "_" < lower case)
OrdOf ==
    [c \in {"-", ".", "/", "_"} \cup Digits
           \cup { UpperChars[i] : i \in 1..26 } \cup { LowerChars[i] : i \in 1..26 } |->
        IF c = "-" THEN 45
        ELSE IF c = "." THEN 46
        ELSE IF c = "/" THEN 47
        ELSE IF c \in Digits
             THEN 48 + (CHOOSE d \in 0..9 :
                          <<"0","1","2","3","4","5","6","7","8","9">>[d + 1] = c)
        ELSE IF \E i \in 1..26 : UpperChars[i] = c
             THEN 64 + (CHOOSE i \in 1..26 : UpperChars[i] = c)
        ELSE IF c = "_" THEN 95
        ELSE 96 + (CHOOSE i \in 1..26 : LowerChars[i] = c)]

Ord(c) == IF c \in DOMAIN OrdOf THEN OrdOf[c] ELSE 127

\* s < t in Python's string order (lexicographic by code point)
RECURSIVE StrLess(_, _)
StrLess(s, t) ==
    IF Len(t) = 0 THEN FALSE
    ELSE IF Len(s) = 0 THEN TRUE
    ELSE IF s[1] # t[1] THEN Ord(s[1]) < Ord(t[1])
    ELSE StrLess(Tail(s), Tail(t))

\* str.rfind(c) as a 1-based index, 0 when c does not occur
RFind(s, c) ==
    LET at == { i \in 1..Len(s) : s[i] = c } IN
    IF at = {} THEN 0 ELSE CHOOSE i \in at : \A j \in at : j <= i

\* ------------------------------------------------------------------------
\* Stacking helpers: normalize_stem, format_priority
\* ------------------------------------------------------------------------

\* pathlib: the final path component (components "" and "." are dropped)
RECURSIVE PathName(_)
PathName(fn) ==
    LET k == RFind(fn, "/") IN
    IF k = 0 THEN (IF fn = <<".">> THEN <<>> ELSE fn)
    ELSE LET last == SubSeq(fn, k + 1, Len(fn)) IN
         IF last = <<>> \/ last = <<".">>
         THEN PathName(SubSeq(fn, 1, k - 1))
         ELSE last

\* pathlib: Path(filename).stem
PathStem(fn) ==
    LET name == PathName(fn)
        i    == RFind(name, ".")
    IN  IF 1 < i /\ i < Len(name) THEN SubSeq(name, 1, i - 1) ELSE name

\* s starts with "-DxO_", ignoring case
DxoPrefix(s) ==
    /\ Len(s) >= 5
    /\ Lower(SubSeq(s, 1, 5)) = <<"-","d","x","o","_">>

\* end of the run [^-]* that starts at index i of s (first index after it)
RunEnd(s, i) ==
    IF \E j \in i..Len(s) : s[j] = "-"
    THEN CHOOSE j \in i..Len(s) : s[j] = "-" /\ \A k \in i..(j-1) : s[k] # "-"
    ELSE Len(s) + 1

\* _DXO_SUFFIX.sub("", stem): every match of -DxO_[^-]* removed
RECURSIVE DxoSub(_)
DxoSub(s) ==
    IF Len(s) = 0 THEN <<>>
    ELSE IF DxoPrefix(s)
         THEN DxoSub(SubSeq(s, RunEnd(s, 6), Len(s)))
         ELSE <<s[1]>> \o DxoSub(Tail(s))

\* _VIRTUAL_COPY.sub("", stem): a trailing -<digits> removed
VirtualCopySub(s) ==
    IF \E i \in 1..(Len(s) - 1) :
           s[i] = "-" /\ \A j \in (i+1)..Len(s) : s[j] \in Digits
    THEN LET i == CHOOSE i \in 1..(Len(s) - 1) :
                      s[i] = "-" /\ \A j \in (i+1)..Len(s) : s[j] \in Digits
         IN  SubSeq(s, 1, i - 1)
    ELSE s

normalize_stem(filename) == Lower(VirtualCopySub(DxoSub(PathStem(filename))))

\* fn.rsplit(".", 1)[-1] if "." in fn else ""
ExtOf(fn) ==
    LET i == RFind(fn, ".") IN
    IF i = 0 THEN <<>> ELSE SubSeq(fn, i + 1, Len(fn))

FORMAT_PRIORITY(e) ==
    IF e \in {<<"t","i","f">>, <<"t","i","f","f">>} THEN 1
    ELSE IF e = <<"d","n","g">> THEN 2
    ELSE IF e \in {<<"a","r","w">>, <<"c","r","3">>, <<"c","r","2">>,
                   <<"n","e","f">>, <<"r","a","f">>} THEN 3
    ELSE IF e \in {<<"j","p","g">>, <<"j","p","e","g">>} THEN 4
    ELSE IF e = <<"h","e","i","c">> THEN 5
    ELSE 9

format_priority(ext) == FORMAT_PRIORITY(Lower(ext))

\* ------------------------------------------------------------------------
\* Bounds and input pools
\* ------------------------------------------------------------------------

MaxAssets == 4          \* assets on the server (stacking runs)
MaxAlbumAssets == 2     \* assets on the server (album runs)
MaxStackId == 2         \* remote stack ids 1..MaxStackId, 0 = not stacked
MaxColls == 2           \* collections in the catalog
MaxAlbums == 1          \* albums on the server before the run

Me == "me"
Other == "other"

\* {"page": page, "size": 1000}: every population here fits the first page
PAGE_SIZE == 1000

Asset(i, fn, o) == [id |-> i, originalFileName |-> fn, ownerId |-> o]

\* the assets a server may hold, in the order the search endpoint lists them
AssetPool == <<
    Asset(1, <<"a",".","j","p","g">>, Me),
    Asset(2, <<"A",".","t","i","f">>, Me),
    Asset(3, <<"a",".","d","n","g">>, Me),
    Asset(4, <<"a","-","1",".","j","p","g">>, Me),
    Asset(5, <<"b",".","A","R","W">>, Me),
    Asset(6, <<"B","-","D","x","O","_","x",".","t","i","f">>, Me),
    Asset(7, <<"a",".","t","i","f","f">>, Other),
    Asset(8, <<"a",".","j","p","g">>, Me),
    Asset(9, <<"b",".","c","r","2">>, Me),
    Asset(10, <<"c">>, Me) >>

AssetIds == 1..Len(AssetPool)

\* normalize_stem and the extension split, tabulated for the pool's file
\* names (any other name is computed on the spot)
PoolNames == { AssetPool[i].originalFileName : i \in AssetIds }
StemOfName == [fn \in PoolNames |-> normalize_stem(fn)]
ExtOfName == [fn \in PoolNames |-> ExtOf(fn)]
Stem(fn) == IF fn \in PoolNames THEN StemOfName[fn] ELSE normalize_stem(fn)
Ext(fn) == IF fn \in PoolNames THEN ExtOfName[fn] ELSE ExtOf(fn)

\* format_priority, tabulated for the extensions of the pool's file names
PoolExts == { ExtOfName[fn] : fn \in PoolNames }
PriorityOfExt == [e \in PoolExts |-> format_priority(e)]
Priority(ext) == IF ext \in PoolExts THEN PriorityOfExt[ext] ELSE format_priority(ext)

\* the members of the id set ids in pool order
RECURSIVE PoolSeq(_, _)
PoolSeq(ids, i) ==
    IF i > Len(AssetPool) THEN <<>>
    ELSE (IF i \in ids THEN <<AssetPool[i]>> ELSE <<>>) \o PoolSeq(ids, i + 1)

\* the populations of at most n assets drawn from the pool entries in from
Populations(from, n) ==
    { PoolSeq(ids, 1) : ids \in { x \in SUBSET from : Cardinality(x) <= n } }

\* pool entries the stacking runs draw from, and those the album runs draw from
StackPoolIds == {1, 2, 3, 4, 5, 6}
AlbumPoolIds == {1, 2, 7, 8}

\* ------------------------------------------------------------------------
\* ImmichAPI
\* ------------------------------------------------------------------------

\* _request: a request that is neither a GET nor marked readonly is not sent
\* in dry-run mode (it returns None instead)
Suppressed(method, readonly, dry) == method # "GET" /\ ~readonly /\ dry

\* index[a["originalFileName"]].append(a) on an insertion-ordered dict
IndexAdd(index, a) ==
    IF \E k \in 1..Len(index) : index[k].filename = a.originalFileName
    THEN [k \in 1..Len(index) |->
            IF index[k].filename = a.originalFileName
            THEN [index[k] EXCEPT !.assets = Append(@, a)]
            ELSE index[k]]
    ELSE Append(index, [filename |-> a.originalFileName, assets |-> <<a>>])

\* no asset is left out of the index
SkipOwnerMutNever(a, owner_id) == FALSE

\* the owner filter of build_asset_index
SkipOwner(a, owner_id) == owner_id # "" /\ a.ownerId # owner_id

RECURSIVE IndexFold(_, _, _)
IndexFold(index, items, owner_id) ==
    IF items = <<>> THEN index
    ELSE IndexFold(IF SkipOwner(Head(items), owner_id) THEN index
                   ELSE IndexAdd(index, Head(items)),
                   Tail(items), owner_id)

\* build_asset_index: {originalFileName: [asset_dicts]} of one page of items
build_asset_index(items, owner_id) == IndexFold(<<>>, items, owner_id)

\* for filename, assets in asset_index.items(): for a in assets
RECURSIVE FlatAssets(_)
FlatAssets(index) ==
    IF index = <<>> THEN <<>>
    ELSE Head(index).assets \o FlatAssets(Tail(index))

\* ------------------------------------------------------------------------
\* Promotion map
\* ------------------------------------------------------------------------

EmptyMap == [x \in {} |-> 0]

Put(m, k, v) == [x \in (DOMAIN m) \cup {k} |-> IF x = k THEN v ELSE m[x]]

\* elif prio < stem_best[stem][1]
BetterMutTie(prio, cur) == prio <= cur

Better(prio, cur) == prio < cur

StemBestAdd(sb, a) ==
    LET fn   == a.originalFileName
        stem == Stem(fn)
        prio == Priority(Ext(fn))
    IN  IF stem \notin DOMAIN sb THEN Put(sb, stem, <<a.id, prio>>)
        ELSE IF Better(prio, sb[stem][2]) THEN Put(sb, stem, <<a.id, prio>>)
        ELSE sb

RECURSIVE StemBestFold(_, _)
StemBestFold(sb, flat) ==
    IF flat = <<>> THEN sb
    ELSE StemBestFold(StemBestAdd(sb, Head(flat)), Tail(flat))

\* if best_id != a["id"]
IsPromotedMutSelf(best_id, id) == TRUE

IsPromoted(best_id, id) == best_id # id

PromoteAdd(pm, sb, a) ==
    LET stem    == Stem(a.originalFileName)
        best_id == IF stem \in DOMAIN sb THEN sb[stem][1] ELSE a.id
    IN  IF IsPromoted(best_id, a.id) THEN Put(pm, a.id, best_id) ELSE pm

RECURSIVE PromoteFold(_, _, _)
PromoteFold(pm, sb, flat) ==
    IF flat = <<>> THEN pm
    ELSE PromoteFold(PromoteAdd(pm, sb, Head(flat)), sb, Tail(flat))

\* ------------------------------------------------------------------------
\* Stem groups
\* ------------------------------------------------------------------------

\* stem_groups[stem].append((a["id"], ext, fn)) on an insertion-ordered dict
GroupAdd(groups, a) ==
    LET fn   == a.originalFileName
        stem == Stem(fn)
        m    == [id |-> a.id, ext |-> Ext(fn), fn |-> fn]
    IN  IF \E k \in 1..Len(groups) : groups[k].stem = stem
        THEN [k \in 1..Len(groups) |->
                IF groups[k].stem = stem
                THEN [groups[k] EXCEPT !.group = Append(@, m)]
                ELSE groups[k]]
        ELSE Append(groups, [stem |-> stem, group |-> <<m>>])

RECURSIVE GroupFold(_, _)
GroupFold(groups, flat) ==
    IF flat = <<>> THEN groups
    ELSE GroupFold(GroupAdd(groups, Head(flat)), Tail(flat))

\* sorted(stem_groups.items()): ascending by stem (the stems are distinct)
RECURSIVE InsertByStem(_, _)
InsertByStem(sorted, g) ==
    IF sorted = <<>> THEN <<g>>
    ELSE IF StrLess(g.stem, Head(sorted).stem) THEN <<g>> \o sorted
    ELSE <<Head(sorted)>> \o InsertByStem(Tail(sorted), g)

RECURSIVE SortByStem(_)
SortByStem(groups) ==
    IF groups = <<>> THEN <<>>
    ELSE InsertByStem(SortByStem(Tail(groups)), Head(groups))

\* sorted(group, key=lambda x: format_priority(x[1])): stable, ascending
\* a sort that puts the later of two equal keys first
KeyBeforeMutTie(p, q) == p <= q

\* sorted() moves an element in front of another only on a smaller key
KeyBefore(p, q) == p < q

RECURSIVE InsertByPrio(_, _)
InsertByPrio(sorted, m) ==
    IF sorted = <<>> THEN <<m>>
    ELSE IF KeyBefore(Priority(m.ext), Priority(Head(sorted).ext))
         THEN <<m>> \o sorted
    ELSE <<Head(sorted)>> \o InsertByPrio(Tail(sorted), m)

RECURSIVE SortByPrioFrom(_, _)
SortByPrioFrom(sorted, group) ==
    IF group = <<>> THEN sorted
    ELSE SortByPrioFrom(InsertByPrio(sorted, Head(group)), Tail(group))

SortByPrio(group) == SortByPrioFrom(<<>>, group)

Range(seq) == { seq[i] : i \in 1..Len(seq) }

\* ------------------------------------------------------------------------
\* Requests
\* ------------------------------------------------------------------------

\* one request: op, the album / stack / primary asset / rating it is about,
\* the ids of its body (of the response, for a GET), whether the server
\* answered without an error, and the loop iteration that sent it
\* (collection index, or stem of the group)
Req(op, obj, ids, ok, coll, stem) ==
    [op |-> op, obj |-> obj, ids |-> ids, ok |-> ok, coll |-> coll, stem |-> stem,
     name |-> ""]

\* POST /api/albums {"albumName": name}
CreateReq(op, name, ok, coll) ==
    [op |-> op, obj |-> 0, ids |-> <<>>, ok |-> ok, coll |-> coll, stem |-> <<>>,
     name |-> name]

\* the requests that change the server
Mutating == {"album_create", "album_add", "album_remove", "album_prune",
             "set_favorite", "set_rating", "stack_delete", "stack_create"}

\* what _request puts on the wire for the requests reqs of method method
Sent(dry, method, reqs) == IF Suppressed(method, FALSE, dry) THEN <<>> ELSE reqs

\* a set of numbers as an ascending list
RECURSIVE SetToSeq(_)
SetToSeq(S) ==
    IF S = {} THEN <<>>
    ELSE LET m == CHOOSE x \in S : \A y \in S : x <= y
         IN  <<m>> \o SetToSeq(S \ {m})

\* the orders in which a set can be iterated
Orders(S) == { f \in [1..Cardinality(S) -> S] : \A x \in S : \E i \in DOMAIN f : f[i] = x }

\* ------------------------------------------------------------------------
\* State
\* ------------------------------------------------------------------------

VARIABLES
    \* arguments of run() and the catalog it opens
    dry_run, do_stacks, do_prune, sync_metadata, collection_filter, catalog,
    \* the Immich server
    srv_assets,      \* assets in search order
    srv_albums,      \* sequence of [id, albumName, assets]
    srv_stacks,      \* asset id -> stack id, 0 = not stacked
    stacks0,         \* srv_stacks as it was when the run started
    srv_favorite,    \* ids with isFavorite set by the run
    srv_rating,      \* id -> rating set by the run
    \* locals of run()
    pc, asset_index, album_by_name, stem_best, promote, collections, ci,
    synced, created, skipped, errors, meta_records,
    resolve_log,     \* the resolve_collection calls of the loop, as [coll, ok]
    stem_groups, asset_to_stack, gi,
    stacks_created, stacks_updated, stacks_skipped,
    \* what left the process
    calls,           \* requests sent to the server, in order
    reports,         \* the "[dry-run] Would ..." lines, in order
    \* one call of LrCCatalog.smart_collection_files
    content,         \* the row's rule text as tokens, NoRow without a row
    cocoa_now,       \* int(time.time()) - 978307200 at the call
    spc,             \* where the call stands
    rules, combine,  \* result of _parse_smart_rules
    ri,              \* position of "for r in rules"
    where_clauses, needs_exif,
    sql_log,         \* the rule queries executed, as [joiner, clauses, exif]
    rows,            \* what the call returned
    \* normalize_stem applied to a file name, then to its own result
    fname, stem1, stem2, npc

args    == <<dry_run, do_stacks, do_prune, sync_metadata, collection_filter, catalog>>
server  == <<srv_assets, srv_albums, srv_stacks, stacks0, srv_favorite, srv_rating>>
phase1  == <<asset_index, album_by_name, stem_best, promote>>
phase3  == <<collections, ci, synced, created, skipped, errors, meta_records,
             resolve_log>>
phase5  == <<stem_groups, asset_to_stack, gi, stacks_created, stacks_updated, stacks_skipped>>
output  == <<calls, reports>>
smart   == <<content, cocoa_now, spc, rules, combine, ri, where_clauses, needs_exif,
             sql_log, rows>>

stems   == <<fname, stem1, stem2, npc>>

vars == <<args, server, pc, phase1, phase3, phase5, output, smart, stems>>

\* the state of run() before its first statement
Locals ==
    /\ pc = "start"
    /\ asset_index = <<>>
    /\ album_by_name = EmptyMap
    /\ stem_best = EmptyMap
    /\ promote = EmptyMap
    /\ collections = <<>>
    /\ ci = 1
    /\ synced = 0 /\ created = 0 /\ skipped = 0 /\ errors = 0
    /\ meta_records = <<>>
    /\ resolve_log = <<>>
    /\ stem_groups = <<>>
    /\ asset_to_stack = EmptyMap
    /\ gi = 1
    /\ stacks_created = 0 /\ stacks_updated = 0 /\ stacks_skipped = 0
    /\ calls = <<>>
    /\ reports = <<>>
    /\ srv_favorite = {}
    /\ srv_rating = EmptyMap
    \* no smart collection is being resolved
    /\ content = <<>> /\ cocoa_now = 0 /\ spc = "idle"
    /\ rules = <<>> /\ combine = <<>> /\ ri = 1
    /\ where_clauses = <<>> /\ needs_exif = FALSE
    /\ sql_log = <<>> /\ rows = {}
    /\ fname = <<>> /\ stem1 = <<>> /\ stem2 = <<>> /\ npc = "idle"

\* stack ids are opaque: the stacks are numbered in the order of their first
\* member
StackMaps(ids) ==
    { st \in [ids -> 0..MaxStackId] :
        \A a \in ids : st[a] > 1 => \E b \in ids : b < a /\ st[b] = st[a] - 1 }

AllIds(assets) == { assets[i].id : i \in 1..Len(assets) }

OwnIds(assets) == { assets[i].id : i \in { j \in 1..Len(assets) : assets[j].ownerId = Me } }

\* runs that exercise the stacking phase: any population, any remote stacks,
\* an empty catalog
InitStacks ==
    /\ dry_run \in BOOLEAN
    /\ do_stacks = TRUE
    /\ do_prune = FALSE
    /\ sync_metadata = TRUE
    /\ collection_filter = ""
    /\ catalog = <<>>
    /\ srv_assets \in Populations(StackPoolIds, MaxAssets)
    /\ srv_albums = <<>>
    /\ srv_stacks \in StackMaps(OwnIds(srv_assets))
    /\ stacks0 = srv_stacks
    /\ Locals

\* ------------------------------------------------------------------------
\* Phase 1: indexes
\* ------------------------------------------------------------------------

\* a failed startup fetch does not stop the run
AfterStartupMutGoOn(ok, next) == next

\* except Exception: error(...); catalog.close(); sys.exit(1)
AfterStartup(ok, next) == IF ok THEN next ELSE "exit"

\* my_user_id = api.get_my_user_id(); asset_index = api.build_asset_index(...)
\* (a GET and a readonly POST: sent in dry-run mode too); on an exception
\* the catalog is closed and the process exits
FetchIndex ==
    /\ pc = "start"
    /\ Len(srv_assets) < PAGE_SIZE
    /\ ~Suppressed("GET", FALSE, dry_run) /\ ~Suppressed("POST", TRUE, dry_run)
    /\ \E okme \in BOOLEAN, ok \in BOOLEAN :
         /\ (~okme => ok)
         /\ calls' = calls \o <<Req("users_me", 0, <<>>, okme, 0, <<>>)>>
                           \o (IF okme
                               THEN <<Req("search", 0, SetToSeq(AllIds(srv_assets)),
                                          ok, 0, <<>>)>>
                               ELSE <<>>)
         /\ asset_index' = IF okme /\ ok THEN build_asset_index(srv_assets, Me)
                            ELSE asset_index
         /\ pc' = AfterStartup(okme /\ ok, "albums")
    /\ UNCHANGED <<args, smart, stems, server, album_by_name, stem_best, promote, phase3, phase5, reports>>

\* {a["albumName"]: a["id"] for a in albums_list}: a later album of the same
\* name replaces an earlier one
RECURSIVE AlbumByName(_, _)
AlbumByName(m, albums) ==
    IF albums = <<>> THEN m
    ELSE AlbumByName(Put(m, Head(albums).albumName, Head(albums).id), Tail(albums))

\* albums_list = api.albums_list(); exit on an exception
FetchAlbums ==
    /\ pc = "albums"
    /\ \E ok \in BOOLEAN :
         /\ calls' = Append(calls, Req("albums_list", 0, <<>>, ok, 0, <<>>))
         /\ album_by_name' = IF ok THEN AlbumByName(EmptyMap, srv_albums)
                              ELSE album_by_name
         /\ pc' = AfterStartup(ok, "promote")
    /\ UNCHANGED <<args, smart, stems, server, asset_index, stem_best, promote, phase3, phase5, reports>>

\* the two loops over asset_index that fill stem_best and promote
BuildPromote ==
    /\ pc = "promote"
    /\ LET flat == FlatAssets(asset_index)
           sb   == StemBestFold(EmptyMap, flat)
       IN  /\ stem_best' = sb
           /\ promote' = PromoteFold(EmptyMap, sb, flat)
    /\ pc' = "collections"
    /\ UNCHANGED <<args, smart, stems, server, asset_index, album_by_name, phase3, phase5, output>>

\* collections = catalog.list_collections()
ListCollections ==
    /\ pc = "collections"
    /\ collections' = catalog
    /\ pc' = IF catalog = <<>> THEN "meta" ELSE "sync"
    /\ UNCHANGED <<args, smart, stems, server, phase1, ci, synced, created, skipped, errors,
                   meta_records, resolve_log, phase5, output>>

\* ------------------------------------------------------------------------
\* Phase 5: stacking
\* ------------------------------------------------------------------------

\* GET /api/stacks as the server answers it: one entry per stack
stacks_list(st) ==
    { [id |-> sid, assets |-> { a \in DOMAIN st : st[a] = sid }] :
        sid \in { st[a] : a \in DOMAIN st } \ {0} }

\* asset_to_stack[aid] = sid for every asset of every listed stack
AssetToStack(stacks) ==
    [a \in UNION { s.assets : s \in stacks } |->
        (CHOOSE s \in stacks : a \in s.assets).id]

\* groups in the order the stacking loop visits them
SortedGroups == SortByStem(stem_groups)

GroupIds(group) == { group[i].id : i \in 1..Len(group) }

\* existing_stack_ids of a group under the asset -> stack map ats
ExistingStackIds(group, ats) == { ats[a] : a \in GroupIds(group) \cap DOMAIN ats }

\* unstacked members of a group under ats
Unstacked(group, ats) == GroupIds(group) \ DOMAIN ats

\* len(existing_stack_ids) == 1 and not unstacked
AlreadyStackedMutNever(group, ats) ==
    Cardinality(ExistingStackIds(group, ats)) = 0 /\ Unstacked(group, ats) = {}

AlreadyStacked(group, ats) ==
    Cardinality(ExistingStackIds(group, ats)) = 1 /\ Unstacked(group, ats) = {}

\* the iteration does something: the group has two members or more and is
\* not already in one stack
NeedsStackMutSingle(group, ats) == Len(group) >= 1 /\ ~AlreadyStacked(group, ats)

NeedsStack(group, ats) == Len(group) >= 2 /\ ~AlreadyStacked(group, ats)

\* sorted_group = sorted(group, key=...)
SortedGroupMutUnsorted(group) == group

SortedGroup(group) == SortByPrio(group)

\* primary_id = sorted_group[0][0]
PrimaryOf(group) == SortedGroup(group)[1].id

\* all_ids passed as the other ids, the primary included
OthersOfMutAll(group) ==
    LET sorted_group == SortedGroup(group)
    IN  [i \in 1..Len(group) |-> sorted_group[i].id]

\* [aid for aid in all_ids if aid != primary_id]
OthersOf(group) ==
    LET sorted_group == SortedGroup(group)
        primary_id   == sorted_group[1].id
        all_ids      == [i \in 1..Len(group) |-> sorted_group[i].id]
    IN  SelectSeq(all_ids, LAMBDA aid : aid # primary_id)

\* the requests one iteration of the stacking loop sends: a DELETE for each
\* existing stack id (in iteration order), then the stack_create
StackRequestsMutDry(dry, stem, group, order, delok, cok) ==
    [i \in 1..Len(order) |->
        Req("stack_delete", order[i], <<>>, order[i] \in delok, 0, stem)]
    \o <<Req("stack_create", PrimaryOf(group), OthersOf(group), cok, 0, stem)>>

\* the create given up after a failed delete
StackRequestsMutAbort(dry, stem, group, order, delok, cok) ==
    IF dry THEN <<>>
    ELSE [i \in 1..Len(order) |->
             Req("stack_delete", order[i], <<>>, order[i] \in delok, 0, stem)]
         \o (IF \A i \in 1..Len(order) : order[i] \in delok
             THEN <<Req("stack_create", PrimaryOf(group), OthersOf(group), cok, 0, stem)>>
             ELSE <<>>)

\* a failed create sent a second time
StackRequestsMutRetry(dry, stem, group, order, delok, cok) ==
    IF dry THEN <<>>
    ELSE [i \in 1..Len(order) |->
             Req("stack_delete", order[i], <<>>, order[i] \in delok, 0, stem)]
         \o <<Req("stack_create", PrimaryOf(group), OthersOf(group), cok, 0, stem)>>
         \o (IF cok THEN <<>>
             ELSE <<Req("stack_create", PrimaryOf(group), OthersOf(group), cok, 0, stem)>>)

StackRequests(dry, stem, group, order, delok, cok) ==
    IF dry THEN <<>>
    ELSE Sent(dry, "DELETE",
              [i \in 1..Len(order) |->
                  Req("stack_delete", order[i], <<>>, order[i] \in delok, 0, stem)])
         \o Sent(dry, "POST",
              <<Req("stack_create", PrimaryOf(group), OthersOf(group), cok, 0, stem)>>)

\* the server's stacks after the requests reqs: an accepted delete unstacks
\* the members of the stack, an accepted create puts primary and others in
\* a new stack
RECURSIVE ApplyStackReqs(_, _, _)
ApplyStackReqs(st, reqs, newid) ==
    IF reqs = <<>> THEN st
    ELSE LET r == Head(reqs)
             st1 == IF ~r.ok THEN st
                    ELSE IF r.op = "stack_delete"
                         THEN [a \in DOMAIN st |-> IF st[a] = r.obj THEN 0 ELSE st[a]]
                    ELSE [a \in DOMAIN st |->
                            IF a = r.obj \/ a \in Range(r.ids) THEN newid ELSE st[a]]
         IN  ApplyStackReqs(st1, Tail(reqs), newid)

\* stem_groups is built and, outside dry-run mode, the stacks are listed;
\* a failed listing leaves asset_to_stack empty
StacksList ==
    /\ pc = "stacks"
    /\ stem_groups' = GroupFold(<<>>, FlatAssets(asset_index))
    /\ \E ok \in BOOLEAN :
         /\ (dry_run => ok)
         /\ calls' = IF dry_run THEN calls
                     ELSE Append(calls, Req("stacks_list", 0, <<>>, ok, 0, <<>>))
         /\ asset_to_stack' = IF ~dry_run /\ ok THEN AssetToStack(stacks_list(srv_stacks))
                              ELSE EmptyMap
    /\ gi' = 1
    /\ pc' = IF stem_groups' = <<>> THEN "done" ELSE "stackloop"
    /\ UNCHANGED <<args, smart, stems, server, phase1, phase3, stacks_created, stacks_updated,
                   stacks_skipped, reports>>

\* one iteration of: for stem, group in sorted(stem_groups.items())
StackGroup ==
    /\ pc = "stackloop"
    /\ gi <= Len(SortedGroups)
    /\ LET sg       == SortedGroups[gi]
           stem     == sg.stem
           group    == sg.group
           existing == ExistingStackIds(group, asset_to_stack)
       IN  IF ~NeedsStack(group, asset_to_stack)
           THEN UNCHANGED <<srv_stacks, stacks_created, stacks_updated,
                            stacks_skipped, calls, reports>>
           ELSE \E order \in Orders(existing), delok \in SUBSET existing, cok \in BOOLEAN :
                LET reqs == StackRequests(dry_run, stem, group, order, delok, cok)
                IN  /\ (dry_run => cok)
                    /\ calls' = calls \o reqs
                    /\ srv_stacks' = ApplyStackReqs(srv_stacks, reqs, MaxStackId + gi)
                    /\ IF dry_run
                       THEN /\ reports' = Append(reports,
                                             Req("would_stack", 0, <<>>, TRUE, 0, stem))
                            /\ stacks_created' = stacks_created + 1
                            /\ UNCHANGED <<stacks_updated, stacks_skipped>>
                       ELSE /\ stacks_updated' = IF cok /\ existing # {}
                                                 THEN stacks_updated + 1 ELSE stacks_updated
                            /\ stacks_created' = IF cok /\ existing = {}
                                                 THEN stacks_created + 1 ELSE stacks_created
                            /\ stacks_skipped' = IF cok THEN stacks_skipped
                                                 ELSE stacks_skipped + 1
                            /\ UNCHANGED reports
    /\ gi' = gi + 1
    /\ pc' = IF gi + 1 > Len(SortedGroups) THEN "done" ELSE pc
    /\ UNCHANGED <<args, smart, stems, srv_assets, srv_albums, stacks0, srv_favorite, srv_rating,
                   phase1, phase3, stem_groups, asset_to_stack>>

\* ------------------------------------------------------------------------
\* Phase 4: metadata
\* ------------------------------------------------------------------------

\* {r[0] for r in meta_records if float(r[1]) == 1.0}
FavIds(recs) == { r[1] : r \in { x \in Range(recs) : x[2] = 1 } }

\* {r[0] for r in meta_records if int(float(r[2])) == rating_val}
RatedIds(recs, v) == { r[1] : r \in { x \in Range(recs) : x[3] = v } }

\* the requests of the metadata phase: favorites, then ratings 1..5, each
\* only for a non-empty id list; oks[0] / oks[v] is the server's answer
RECURSIVE RatingRequests(_, _, _, _)
RatingRequests(dry, recs, v, oks) ==
    IF v > 5 THEN <<>>
    ELSE (IF RatedIds(recs, v) = {} \/ dry THEN <<>>
          ELSE Sent(dry, "PUT",
                    <<Req("set_rating", v, SetToSeq(RatedIds(recs, v)), oks[v], 0, <<>>)>>))
         \o RatingRequests(dry, recs, v + 1, oks)

MetaRequests(dry, recs, oks) ==
    (IF FavIds(recs) = {} \/ dry THEN <<>>
     ELSE Sent(dry, "PUT",
               <<Req("set_favorite", 0, SetToSeq(FavIds(recs)), oks[0], 0, <<>>)>>))
    \o RatingRequests(dry, recs, 1, oks)

\* the "[dry-run] Would set ..." lines of the metadata phase
RECURSIVE RatingReports(_, _)
RatingReports(recs, v) ==
    IF v > 5 THEN <<>>
    ELSE (IF RatedIds(recs, v) = {} THEN <<>>
          ELSE <<Req("would_set_rating", v, SetToSeq(RatedIds(recs, v)), TRUE, 0, <<>>)>>)
         \o RatingReports(recs, v + 1)

MetaReports(recs) ==
    (IF FavIds(recs) = {} THEN <<>>
     ELSE <<Req("would_set_favorite", 0, SetToSeq(FavIds(recs)), TRUE, 0, <<>>)>>)
    \o RatingReports(recs, 1)

\* the server's ratings after the accepted set_rating requests
RECURSIVE ApplyRatings(_, _)
ApplyRatings(rt, reqs) ==
    IF reqs = <<>> THEN rt
    ELSE LET r == Head(reqs)
         IN  ApplyRatings(IF r.op = "set_rating" /\ r.ok
                          THEN [a \in (DOMAIN rt) \cup Range(r.ids) |->
                                   IF a \in Range(r.ids) THEN r.obj ELSE rt[a]]
                          ELSE rt,
                          Tail(reqs))

ApplyFavorites(fav, reqs) ==
    fav \cup UNION { Range(reqs[i].ids) :
                       i \in { j \in 1..Len(reqs) : reqs[j].op = "set_favorite" /\ reqs[j].ok } }

\* if sync_metadata and meta_records: ...
MetadataSync ==
    /\ pc = "meta"
    /\ IF sync_metadata /\ meta_records # <<>>
       THEN \E oks \in [0..5 -> BOOLEAN] :
              LET reqs == MetaRequests(dry_run, meta_records, oks)
              IN  /\ \A v \in 0..5 :  \* an answer only for a call that is made
                        oks[v] \/ (~dry_run /\ (IF v = 0 THEN FavIds(meta_records)
                                                ELSE RatedIds(meta_records, v)) # {})
                  /\ calls' = calls \o reqs
                  /\ reports' = IF dry_run THEN reports \o MetaReports(meta_records)
                                ELSE reports
                  /\ srv_favorite' = ApplyFavorites(srv_favorite, reqs)
                  /\ srv_rating' = ApplyRatings(srv_rating, reqs)
       ELSE UNCHANGED <<calls, reports, srv_favorite, srv_rating>>
    /\ pc' = IF do_stacks THEN "stacks" ELSE "done"
    /\ UNCHANGED <<args, smart, stems, srv_assets, srv_albums, srv_stacks, stacks0,
                   phase1, phase3, phase5>>

\* ------------------------------------------------------------------------
\* Phase 3: album sync loop
\* ------------------------------------------------------------------------

\* asset_index.get(filename, [])
IndexGet(index, filename) ==
    IF \E k \in 1..Len(index) : index[k].filename = filename
    THEN index[CHOOSE k \in 1..Len(index) : index[k].filename = filename].assets
    ELSE <<>>

\* promote.get(aid, aid)
Promoted(pm, aid) == IF aid \in DOMAIN pm THEN pm[aid] ELSE aid

\* the (aid, pick, rating) of every file that has an asset, in file order
RECURSIVE MatchFiles(_, _, _)
MatchFiles(files, index, pm) ==
    IF files = <<>> THEN <<>>
    ELSE LET f      == Head(files)
             assets == IndexGet(index, f.filename)
         IN  (IF assets = <<>> THEN <<>>
              ELSE << <<Promoted(pm, assets[1].id), f.pick, f.rating>> >>)
             \o MatchFiles(Tail(files), index, pm)

\* matched_ids left as the loop over the files built it
DedupMutKeep(ids) == ids

\* list(dict.fromkeys(matched_ids))
RECURSIVE Dedup(_)
Dedup(ids) ==
    IF ids = <<>> THEN <<>>
    ELSE <<Head(ids)>> \o Dedup(SelectSeq(Tail(ids), LAMBDA x : x # Head(ids)))

\* if promote[cid] in current_ids
TargetPresentMutAny(pm, cid, current_ids) == TRUE

TargetPresent(pm, cid, current_ids) == pm[cid] \in current_ids

\* a cleanup that finds no duplicate
DemotedMutNone(current_ids, matched_set, pm) == {}

\* the lower-priority siblings the cleanup removes from the album
Demoted(current_ids, matched_set, pm) ==
    { cid \in current_ids :
        /\ cid \notin matched_set
        /\ cid \in DOMAIN pm
        /\ TargetPresent(pm, cid, current_ids) }

\* list(current_ids - matched_set)
ToRemove(current_ids, matched_set) == current_ids \ matched_set

\* api.album_get(album_id)["assets"] as ids
AlbumAssets(albums, album_id) == albums[album_id].assets

\* every run that is not a dry run prunes
PruneEnabledMutAlways(prune, dry) == ~dry

\* if do_prune and album_id and not dry_run
PruneEnabled(prune, dry) == prune /\ ~dry

\* a failed add is not counted
FailuresMutNoAdd(failed, createFail, addFail) ==
    (IF failed THEN 1 ELSE 0) + (IF createFail THEN 1 ELSE 0)

\* the "errors += 1" an iteration runs: resolve, create and add handlers
Failures(failed, createFail, addFail) ==
    (IF failed THEN 1 ELSE 0) + (IF createFail THEN 1 ELSE 0)
    + (IF addFail THEN 1 ELSE 0)

\* a created album that is not kept for the later collections
RememberMutForget(by_name, name, album_id) == by_name

\* album_by_name[coll_name] = album_id
Remember(by_name, name, album_id) == Put(by_name, name, album_id)

\* the answers the collaborators give during one iteration
Outcomes == [resolve : BOOLEAN, create : BOOLEAN, add : BOOLEAN,
             get1 : BOOLEAN, rm1 : BOOLEAN, get2 : BOOLEAN, rm2 : BOOLEAN]

\* one iteration of: for coll in collections, when the collaborators answer
\* as o says: whether o draws answers only for calls that are made, the
\* requests and reports of the iteration, and the values it leaves behind
SyncIteration(coll, o) ==
    LET matched     == MatchFiles(coll.files, asset_index, promote)
        matched_ids == Dedup([i \in 1..Len(matched) |-> matched[i][1]])
        matched_set == Range(matched_ids)
        known       == coll.name \in DOMAIN album_by_name
        filtered    == collection_filter # "" /\ coll.name # collection_filter
        \* the iteration ends early: filter, resolve error, nothing to sync
        failed      == ~filtered /\ ~o.resolve
        empty       == ~filtered /\ ~failed /\ (coll.files = <<>> \/ matched_ids = <<>>)
        active      == ~filtered /\ ~failed /\ ~empty
        creates     == active /\ ~known /\ ~dry_run
        createFail  == creates /\ ~o.create
        new_id      == Len(srv_albums) + 1
        album_id    == IF known THEN album_by_name[coll.name]
                       ELSE IF creates /\ o.create THEN new_id ELSE 0
        hasAlbum    == active /\ album_id # 0
        \* server albums after the create
        albums1     == IF creates /\ o.create
                       THEN Append(srv_albums,
                              [id |-> new_id, albumName |-> coll.name, assets |-> {}])
                       ELSE srv_albums
        adds        == hasAlbum /\ ~dry_run
        albums2     == IF adds /\ o.add
                       THEN [albums1 EXCEPT ![album_id].assets = @ \cup matched_set]
                       ELSE albums1
        \* cleanup of lower-quality duplicates
        gets1       == hasAlbum /\ ~dry_run
        cleans      == gets1 /\ o.get1
        demoted     == IF cleans
                       THEN Demoted(AlbumAssets(albums2, album_id), matched_set, promote)
                       ELSE {}
        albums3     == IF demoted # {} /\ o.rm1
                       THEN [albums2 EXCEPT ![album_id].assets = @ \ demoted]
                       ELSE albums2
        \* prune
        gets2       == hasAlbum /\ PruneEnabled(do_prune, dry_run)
        prunes      == gets2 /\ o.get2
        to_remove   == IF prunes
                       THEN ToRemove(AlbumAssets(albums3, album_id), matched_set)
                       ELSE {}
        albums4     == IF to_remove # {} /\ o.rm2
                       THEN [albums3 EXCEPT ![album_id].assets = @ \ to_remove]
                       ELSE albums3
        reqs        ==
            (IF creates
             THEN Sent(dry_run, "POST",
                       <<CreateReq("album_create", coll.name, o.create, ci)>>)
             ELSE <<>>)
            \o (IF adds
                THEN Sent(dry_run, "PUT",
                          <<Req("album_add", album_id, matched_ids, o.add, ci, <<>>)>>)
                ELSE <<>>)
            \o (IF gets1
                THEN <<Req("album_get", album_id,
                           IF o.get1 THEN SetToSeq(AlbumAssets(albums2, album_id))
                           ELSE <<>>,
                           o.get1, ci, <<>>)>>
                ELSE <<>>)
            \o (IF demoted # {}
                THEN Sent(dry_run, "DELETE",
                          <<Req("album_remove", album_id, SetToSeq(demoted), o.rm1,
                                ci, <<>>)>>)
                ELSE <<>>)
            \o (IF gets2
                THEN <<Req("album_get", album_id,
                           IF o.get2 THEN SetToSeq(AlbumAssets(albums3, album_id))
                           ELSE <<>>,
                           o.get2, ci, <<>>)>>
                ELSE <<>>)
            \o (IF to_remove # {}
                THEN Sent(dry_run, "DELETE",
                          <<Req("album_prune", album_id, SetToSeq(to_remove), o.rm2,
                                ci, <<>>)>>)
                ELSE <<>>)
        reps        ==
            (IF active /\ ~known /\ dry_run
             THEN <<CreateReq("would_create_album", coll.name, TRUE, ci)>>
             ELSE <<>>)
            \o (IF hasAlbum /\ dry_run
                THEN <<Req("would_add", album_id, matched_ids, TRUE, ci, <<>>)>>
                ELSE <<>>)
        \* an answer is drawn only for a call that is made
        drawn       ==
            /\ (filtered => o.resolve)
            /\ (~creates => o.create)
            /\ (~adds => o.add)
            /\ (~gets1 => o.get1)
            /\ (demoted = {} => o.rm1)
            /\ (~gets2 => o.get2)
            /\ (to_remove = {} => o.rm2)
    IN  [drawn |-> drawn, reqs |-> reqs, reps |-> reps, albums |-> albums4,
         by_name |-> IF creates /\ o.create
                     THEN Remember(album_by_name, coll.name, new_id)
                     ELSE album_by_name,
         meta |-> IF ~filtered /\ ~failed /\ coll.files # <<>> /\ sync_metadata
                  THEN meta_records \o matched
                  ELSE meta_records,
         resolved |-> IF filtered THEN resolve_log
                      ELSE Append(resolve_log, [coll |-> ci, ok |-> o.resolve]),
         errors |-> errors + Failures(failed, createFail, adds /\ ~o.add),
         skipped |-> IF empty THEN skipped + 1 ELSE skipped,
         created |-> IF creates /\ o.create THEN created + 1 ELSE created,
         synced |-> IF active /\ ~createFail THEN synced + 1 ELSE synced]

\* for coll in collections: one iteration of the loop
SyncCollection ==
    /\ pc = "sync"
    /\ ci <= Len(collections)
    /\ \E o \in Outcomes :
       \E it \in {SyncIteration(collections[ci], o)} :
           /\ it.drawn
           /\ calls' = calls \o it.reqs
           /\ reports' = reports \o it.reps
           /\ srv_albums' = it.albums
           /\ album_by_name' = it.by_name
           /\ meta_records' = it.meta
           /\ errors' = it.errors
           /\ resolve_log' = it.resolved
           /\ skipped' = it.skipped
           /\ created' = it.created
           /\ synced' = it.synced
    /\ ci' = ci + 1
    /\ pc' = IF ci + 1 > Len(collections) THEN "meta" ELSE pc
    /\ UNCHANGED <<args, smart, stems, srv_assets, srv_stacks, stacks0, srv_favorite, srv_rating,
                   asset_index, stem_best, promote, collections, phase5>>

\* ------------------------------------------------------------------------
\* Catalog and album inputs of the album runs
\* ------------------------------------------------------------------------

File(fn, pick, rating) == [filename |-> fn, pick |-> pick, rating |-> rating]

Coll(name, type, files) == [name |-> name, type |-> type, files |-> files]

\* collections a catalog may hold, ORDER BY c.name, each with the files
\* resolve_collection returns for it
CollPool == <<
    Coll("n1", "regular", <<File(<<"a",".","j","p","g">>, 1, 3)>>),
    Coll("n1", "regular", <<File(<<"a",".","d","n","g">>, 1, 5),
                            File(<<"A",".","t","i","f">>, 0, 0)>>),
    Coll("n1", "smart",   <<>>),
    Coll("n2", "regular", <<File(<<"z",".","j","p","g">>, 0, 1)>>),
    Coll("n2", "smart",   <<File(<<"a",".","j","p","g">>, 0, 3),
                            File(<<"z",".","j","p","g">>, 1, 0),
                            File(<<"A",".","t","i","f">>, 0, 0)>>) >>

RECURSIVE CollSeq(_, _)
CollSeq(ks, i) ==
    IF i > Len(CollPool) THEN <<>>
    ELSE (IF i \in ks THEN <<CollPool[i]>> ELSE <<>>) \o CollSeq(ks, i + 1)

Catalogs(n) ==
    { CollSeq(ks, 1) : ks \in { x \in SUBSET (1..Len(CollPool)) : Cardinality(x) <= n } }

\* albums a server may hold before the run: name and member ids
AlbumPool == <<
    [albumName |-> "n1", assets |-> {1}],
    [albumName |-> "n1", assets |-> {1, 2}],
    [albumName |-> "n2", assets |-> {}],
    [albumName |-> "n1", assets |-> {2, 7}] >>

\* the chosen pool albums in pool order; an album's id is its position
RECURSIVE AlbumSeq(_, _, _)
AlbumSeq(ks, i, l) ==
    IF i > Len(AlbumPool) THEN l
    ELSE AlbumSeq(ks, i + 1,
                  IF i \in ks
                  THEN Append(l, [id |-> Len(l) + 1,
                                  albumName |-> AlbumPool[i].albumName,
                                  assets |-> AlbumPool[i].assets])
                  ELSE l)

AlbumLists(n) ==
    { AlbumSeq(ks, 1, <<>>) :
        ks \in { x \in SUBSET (1..Len(AlbumPool)) : Cardinality(x) <= n } }

\* runs that exercise the album loop (--no-metadata --no-stacks): a small
\* population, any catalog, any album list, nothing stacked
InitAlbums ==
    /\ dry_run \in BOOLEAN
    /\ do_stacks = FALSE
    /\ do_prune \in BOOLEAN
    /\ sync_metadata = FALSE
    /\ collection_filter = ""
    /\ catalog \in Catalogs(MaxColls)
    /\ srv_assets \in Populations(AlbumPoolIds, MaxAlbumAssets)
    /\ srv_albums \in AlbumLists(MaxAlbums)
    \* an album holds assets of the server
    /\ \A k \in 1..Len(srv_albums) : srv_albums[k].assets \subseteq AllIds(srv_assets)
    /\ srv_stacks = [a \in OwnIds(srv_assets) |-> 0]
    /\ stacks0 = srv_stacks
    /\ Locals

\* ------------------------------------------------------------------------
\* Specifications
\* ------------------------------------------------------------------------

\* runs of one scenario under every combination of the flags
InitFlags ==
    /\ dry_run \in BOOLEAN
    /\ do_stacks \in BOOLEAN
    /\ do_prune \in BOOLEAN
    /\ sync_metadata \in BOOLEAN
    /\ collection_filter \in {"", "n1", "n2"}
    /\ catalog = CollSeq({1, 5}, 1)
    \* with another user's a.tiff next to the own a.jpg, A.tif and a.dng
    /\ srv_assets = PoolSeq({1, 2, 3, 5, 7}, 1)
    /\ srv_albums = AlbumSeq({1}, 1, <<>>)
    /\ srv_stacks = [a \in OwnIds(srv_assets) |-> IF a \in {1, 2} THEN 1 ELSE 0]
    /\ stacks0 = srv_stacks
    /\ Locals

Init == InitStacks \/ InitAlbums \/ InitFlags

Next ==
    \/ FetchIndex
    \/ FetchAlbums
    \/ BuildPromote
    \/ ListCollections
    \/ SyncCollection
    \/ MetadataSync
    \/ StacksList
    \/ StackGroup

\* every run of the three families
Spec == Init /\ [][Next]_vars

NextStacks ==
    \/ FetchIndex
    \/ FetchAlbums
    \/ BuildPromote
    \/ ListCollections
    \/ MetadataSync
    \/ StacksList
    \/ StackGroup

\* the stacking runs
SpecStacks == InitStacks /\ [][NextStacks]_vars

NextAlbums ==
    \/ FetchIndex
    \/ FetchAlbums
    \/ BuildPromote
    \/ ListCollections
    \/ SyncCollection
    \/ MetadataSync

\* the album runs
SpecAlbums == InitAlbums /\ [][NextAlbums]_vars

\* ------------------------------------------------------------------------
\* Properties
\* ------------------------------------------------------------------------

\* the promotion map has been built
PromoteBuilt == pc \in {"collections", "sync", "meta", "stacks", "stackloop", "done"}

\* the indexed assets in index order, their stems and their priorities
Flat == FlatAssets(asset_index)
Stems(flat) == [i \in 1..Len(flat) |-> Stem(flat[i].originalFileName)]
Prios(flat) == [i \in 1..Len(flat) |-> Priority(Ext(flat[i].originalFileName))]

\* the values of the promotion map
Targets == { promote[x] : x \in DOMAIN promote }

\* C1: once the promotion map is built from a population of unique asset
\* ids, no asset maps to itself and no mapped value is a key of the map.
C1_NoSelfNoChain ==
    PromoteBuilt =>
        \A x \in DOMAIN promote : promote[x] # x /\ promote[x] \notin DOMAIN promote

\* a map with two keys has been built
C1_Witness == PromoteBuilt /\ Cardinality(DOMAIN promote) >= 2

\* position of the canonical asset of the group of position i: lowest
\* priority, first in index order among those
CanonAt(stem, prio, i) ==
    CHOOSE j \in DOMAIN stem :
        /\ stem[j] = stem[i]
        /\ \A k \in DOMAIN stem :
             stem[k] = stem[i] =>
                 prio[j] < prio[k] \/ (prio[j] = prio[k] /\ j <= k)

\* C2: in every stem group the promotion target of the other members has a
\* format priority lower than or equal to every member's, and among several
\* members of the lowest priority it is the first in asset-index order.
C2_CanonicalIsBestFirstSeen ==
    PromoteBuilt =>
        LET flat == Flat
            stem == Stems(flat)
            prio == Prios(flat)
        IN  \A i \in 1..Len(flat) :
                LET c == CanonAt(stem, prio, i) IN
                IF i = c
                THEN flat[i].id \notin DOMAIN promote
                ELSE /\ flat[i].id \in DOMAIN promote
                     /\ promote[flat[i].id] = flat[c].id

\* a group whose two best members tie: the later one is promoted to the
\* earlier one
C2_Witness ==
    /\ PromoteBuilt
    /\ LET flat == Flat
           stem == Stems(flat)
           prio == Prios(flat)
       IN  \E i, j \in 1..Len(flat) :
             /\ i < j /\ stem[i] = stem[j] /\ prio[i] = prio[j]
             /\ \A k \in 1..Len(flat) : stem[k] = stem[i] => prio[i] <= prio[k]
             /\ flat[j].id \in DOMAIN promote /\ promote[flat[j].id] = flat[i].id

\* the stem groups of the indexed assets
Groups == GroupFold(<<>>, Flat)

\* the stack requests sent while the group of stem st was processed
StackCalls(st) ==
    SelectSeq(calls, LAMBDA r : r.op \in {"stack_delete", "stack_create"} /\ r.stem = st)

CreateCalls(st) == SelectSeq(calls, LAMBDA r : r.op = "stack_create" /\ r.stem = st)

\* the ids of a stack_create request
CreateIds(r) == {r.obj} \cup Range(r.ids)

\* C10: a stem group with exactly one member contributes no promotion-map
\* entry (its asset is neither a key nor a value) and causes no stack
\* operation.
C10_SingletonUntouched ==
    LET gs == Groups IN
    \A g \in 1..Len(gs) :
        Len(gs[g].group) = 1 =>
            LET a == gs[g].group[1].id IN
            /\ a \notin DOMAIN promote
            /\ a \notin Targets
            /\ StackCalls(gs[g].stem) = <<>>
            /\ \A n \in 1..Len(calls) :
                 calls[n].op = "stack_create" => a \notin CreateIds(calls[n])

\* a finished run that stacked one group and left a one-member group alone
C10_Witness ==
    /\ pc = "done"
    /\ \E g \in 1..Len(Groups) : Len(Groups[g].group) = 1
    /\ \E n \in 1..Len(calls) : calls[n].op = "stack_create"
    /\ promote # EmptyMap

\* the group at position k of the stacking loop has been processed
Processed(k) == pc \in {"stackloop", "done"} /\ gi > k

\* the stack ids that hold members of a group under the asset -> stack id
\* map st (0 = not stacked), and the members no stack holds
StacksOf(group, st) == { st[a] : a \in GroupIds(group) } \ {0}
LooseOf(group, st) == { a \in GroupIds(group) : st[a] = 0 }

\* asset_to_stack as a total map on the group's members
ReadMap(group) ==
    [a \in GroupIds(group) |-> IF a \in DOMAIN asset_to_stack THEN asset_to_stack[a] ELSE 0]

\* all members of the group are in one and the same stack under st
InOneStack(group, st) == Cardinality(StacksOf(group, st)) = 1 /\ LooseOf(group, st) = {}

\* the format priority of member a of a group
PrioOf(group, a) ==
    Priority(group[CHOOSE i \in 1..Len(group) : group[i].id = a].ext)

\* r creates a stack of all members of the group: the primary has the lowest
\* priority and the others follow in ascending priority
GoodCreate(r, group) ==
    /\ r.op = "stack_create"
    /\ r.obj \in GroupIds(group)
    /\ \A a \in GroupIds(group) : PrioOf(group, r.obj) <= PrioOf(group, a)
    /\ Len(r.ids) = Len(group) - 1
    /\ Range(r.ids) = GroupIds(group) \ {r.obj}
    /\ \A i, j \in 1..Len(r.ids) :
         i < j => PrioOf(group, r.ids[i]) <= PrioOf(group, r.ids[j])

\* the requests of the group are: one delete per stack id in sids, then one
\* create of all members
DeletesThenCreate(cs, sids, group) ==
    /\ Len(cs) = Cardinality(sids) + 1
    /\ \A i \in 1..(Len(cs) - 1) : cs[i].op = "stack_delete"
    /\ { cs[i].obj : i \in 1..(Len(cs) - 1) } = sids
    /\ cs[Len(cs)].op = "stack_create"
    /\ CreateIds(cs[Len(cs)]) = GroupIds(group)

\* C3: the cleanup queues an album member c for removal if and only if c is
\* not a matched id of this sync, c has a promotion target and the target is
\* a member of the album (the album as album_get returned it).
C3_CleanupExact ==
    \A n \in 1..Len(calls) :
        /\ (n > 1 /\ calls[n].op = "album_get" /\ calls[n].ok
               /\ calls[n - 1].op = "album_add") =>
             LET current  == Range(calls[n].ids)
                 matched  == Range(calls[n - 1].ids)
                 expected == { c \in current :
                                 /\ c \notin matched
                                 /\ c \in DOMAIN promote
                                 /\ promote[c] \in current }
                 removes  == n < Len(calls) /\ calls[n + 1].op = "album_remove"
             IN  /\ removes <=> expected # {}
                 /\ removes => Range(calls[n + 1].ids) = expected
        /\ calls[n].op = "album_remove" =>
             n > 2 /\ calls[n - 1].op = "album_get" /\ calls[n - 1].ok
                   /\ calls[n - 2].op = "album_add"

\* a cleanup that removed a duplicate, and a cleanup that kept an asset whose
\* promotion target was not in the album
C3_Witness ==
    /\ \E n \in 1..Len(calls) : calls[n].op = "album_remove"
    /\ \E n \in 2..Len(calls) :
         /\ calls[n].op = "album_get" /\ calls[n].ok /\ calls[n - 1].op = "album_add"
         /\ \E c \in Range(calls[n].ids) :
              /\ c \in DOMAIN promote
              /\ promote[c] \notin Range(calls[n].ids)
         /\ (n = Len(calls) \/ calls[n + 1].op # "album_remove")

\* C4: in dry-run mode no request that changes the server is ever sent: no
\* album create, add or remove, no favorite or rating, no stack delete or
\* create; the server's stacks, favorites and ratings stay as they were.
C4_DryRunNoMutation ==
    dry_run =>
        /\ \A n \in 1..Len(calls) : calls[n].op \notin Mutating
        /\ srv_stacks = stacks0
        /\ srv_favorite = {}
        /\ srv_rating = EmptyMap

\* a finished dry run that reported an album create, an add, a favorite and
\* a stack
C4_Witness ==
    /\ dry_run /\ pc = "done"
    /\ \A op \in {"would_create_album", "would_add", "would_set_favorite", "would_stack"} :
         \E n \in 1..Len(reports) : reports[n].op = op

\* the stems a dry run reported as "Would stack"
WouldStack == { reports[n].stem : n \in { m \in 1..Len(reports) : reports[m].op = "would_stack" } }

\* the stems of the groups a real run stacks on the server's stacks st
RealRunStacks(st) ==
    { SortedGroups[k].stem :
        k \in { j \in 1..Len(SortedGroups) :
                  /\ Len(SortedGroups[j].group) >= 2
                  /\ ~InOneStack(SortedGroups[j].group, st) } }

\* C5: the groups a dry run reports as "would stack" are exactly the groups
\* for which a real run on the same remote state sends a create or a
\* replace; groups already correctly stacked are not reported.
C5_DryRunDecisionsMatch ==
    (dry_run /\ pc = "done") => WouldStack = RealRunStacks(stacks0)

\* C6 as stated: for a group of two or more whose members are all in one
\* and the same stack on the server, no stack request is sent.
C6_Original ==
    LET sg == SortedGroups IN
    \A k \in 1..Len(sg) :
        LET g == sg[k] IN
        (Len(g.group) >= 2 /\ InOneStack(g.group, stacks0)) => StackCalls(g.stem) = <<>>

\* C6: for a group of two or more whose members are all in one and the same
\* stack of the stack list the run read, no deleteStack and no createStack
\* is sent.
C6_SkipWhenStackedAsRead ==
    LET sg == SortedGroups IN
    \A k \in 1..Len(sg) :
        LET g == sg[k] IN
        (Len(g.group) >= 2 /\ InOneStack(g.group, ReadMap(g.group)))
            => StackCalls(g.stem) = <<>>

\* a group found fully stacked was passed over while another was stacked
C6_Witness ==
    LET sg == SortedGroups IN
    /\ \E k \in 1..Len(sg) :
         /\ Processed(k)
         /\ Len(sg[k].group) >= 2
         /\ InOneStack(sg[k].group, ReadMap(sg[k].group))
    /\ \E n \in 1..Len(calls) : calls[n].op = "stack_create"

\* C7 as stated: a processed group of two or more with no member in any
\* stack gets no delete and exactly one create, primary of lowest priority,
\* the others in ascending priority.
C7_Original ==
    LET sg == SortedGroups IN
    \A k \in 1..Len(sg) :
        LET g == sg[k] IN
        (Processed(k) /\ Len(g.group) >= 2 /\ StacksOf(g.group, stacks0) = {}) =>
            /\ Len(StackCalls(g.stem)) = 1
            /\ GoodCreate(StackCalls(g.stem)[1], g.group)

\* C7: outside dry-run mode, a processed group of two or more with no member
\* in any remote stack gets no deleteStack and exactly one createStack whose
\* primary has the lowest format priority and whose other ids are all the
\* remaining members in ascending priority.
C7_CreateWhenUnstacked ==
    LET sg == SortedGroups IN
    \A k \in 1..Len(sg) :
        LET g == sg[k] IN
        (~dry_run /\ Processed(k) /\ Len(g.group) >= 2
                  /\ StacksOf(g.group, stacks0) = {}) =>
            /\ Len(StackCalls(g.stem)) = 1
            /\ GoodCreate(StackCalls(g.stem)[1], g.group)

\* {a.jpg, A.tif, a.dng} unstacked: Create(A.tif, [a.dng, a.jpg])
C7_Witness ==
    /\ ~dry_run
    /\ \A a \in {1, 2, 3} : a \in DOMAIN stacks0 /\ stacks0[a] = 0
    /\ \E n \in 1..Len(calls) :
         calls[n].op = "stack_create" /\ calls[n].obj = 2 /\ calls[n].ids = <<3, 1>>

\* C8 as stated: a processed group of two or more that is not in one stack
\* and has a member in a stack on the server gets a delete for every stack
\* id holding a member, then one create of all members.
C8_Original ==
    LET sg == SortedGroups IN
    \A k \in 1..Len(sg) :
        LET g == sg[k] IN
        (Processed(k) /\ Len(g.group) >= 2 /\ ~InOneStack(g.group, stacks0)
                      /\ StacksOf(g.group, stacks0) # {}) =>
            DeletesThenCreate(StackCalls(g.stem), StacksOf(g.group, stacks0), g.group)

\* C8: a processed group of two or more that, in the stack list the run
\* read, is not in one stack and has a member in a stack gets a deleteStack
\* for every listed stack id holding a member, all before its createStack,
\* then exactly one createStack of all members, whatever the deletes
\* answered.
C8_ReplaceAsRead ==
    LET sg == SortedGroups IN
    \A k \in 1..Len(sg) :
        LET g  == sg[k]
            rd == ReadMap(g.group)
        IN  (Processed(k) /\ Len(g.group) >= 2 /\ ~InOneStack(g.group, rd)
                          /\ StacksOf(g.group, rd) # {}) =>
                DeletesThenCreate(StackCalls(g.stem), StacksOf(g.group, rd), g.group)

\* a group spread over two stacks: two deletes, one of them refused, then
\* the create
C8_Witness ==
    LET sg == SortedGroups IN
    \E k \in 1..Len(sg) :
        LET g  == sg[k]
            cs == StackCalls(g.stem)
        IN  /\ Processed(k)
            /\ Cardinality(StacksOf(g.group, ReadMap(g.group))) = 2
            /\ Len(cs) = 3
            /\ \E i \in 1..2 : ~cs[i].ok
            /\ cs[3].op = "stack_create"

\* the position of the group of stem st in the stacking loop
LoopPos(st) == CHOOSE k \in 1..Len(SortedGroups) : SortedGroups[k].stem = st

\* the createStack requests the server refused
FailedCreates == SelectSeq(calls, LAMBDA r : r.op = "stack_create" /\ ~r.ok)

\* C9: a refused createStack does not end the stacking phase: the loop runs
\* to its end, every later group of two or more that needs stacking has its
\* createStack sent, the failure is counted, and no group's createStack is
\* sent twice.
C9_FailedCreateIsolated ==
    LET sg == SortedGroups IN
    /\ stacks_skipped = Len(FailedCreates)
    /\ \A k \in 1..Len(sg) : Len(CreateCalls(sg[k].stem)) <= 1
    /\ \A n \in 1..Len(FailedCreates) :
         LET j == LoopPos(FailedCreates[n].stem) IN
         /\ Processed(j)
         /\ pc = "done" =>
              /\ gi = Len(sg) + 1
              /\ \A k \in (j + 1)..Len(sg) :
                   LET g == sg[k] IN
                   (Len(g.group) >= 2 /\ ~InOneStack(g.group, stacks0))
                       => Len(CreateCalls(g.stem)) = 1

\* a finished run in which a createStack was refused and a later group's
\* createStack was accepted
C9_Witness ==
    /\ pc = "done"
    /\ \E n, m \in 1..Len(calls) :
         /\ n < m
         /\ calls[n].op = "stack_create" /\ ~calls[n].ok
         /\ calls[m].op = "stack_create" /\ calls[m].ok

\* ------------------------------------------------------------------------
\* Stack primary and promotion canonical
\* ------------------------------------------------------------------------

\* the createStack requests sent so far
AllCreates == SelectSeq(calls, LAMBDA r : r.op = "stack_create")

\* C11: the primary of every createStack sent for a stem group is the asset
\* the promotion map uses as that group's canonical: it is not a key of the
\* map and every other id of the request is promoted to it, also when
\* several members tie on format priority.
C11_PrimaryIsCanonical ==
    LET cs == AllCreates IN
    \A n \in 1..Len(cs) :
        /\ cs[n].obj \notin DOMAIN promote
        /\ \A a \in Range(cs[n].ids) : a \in DOMAIN promote /\ promote[a] = cs[n].obj

\* a.jpg and a-1.jpg tie on priority: the stack is created with a.jpg, the
\* first in index order, as primary, and a-1.jpg is promoted to it
C11_Witness ==
    /\ \E n \in 1..Len(calls) :
         calls[n].op = "stack_create" /\ calls[n].obj = 1 /\ calls[n].ids = <<4>>
    /\ 4 \in DOMAIN promote /\ promote[4] = 1

\* ------------------------------------------------------------------------
\* LrCCatalog: smart collection rules
\* ------------------------------------------------------------------------

\* the rule text is a sequence of tokens: "{", "}", key = "v" (quoted),
\* key = v (bare), combine = "v", and anything else; v is a character
\* sequence
Tok(t, key, quoted, v) == [t |-> t, key |-> key, quoted |-> quoted, v |-> v]
Open == Tok("open", "", FALSE, <<>>)
Close == Tok("close", "", FALSE, <<>>)
Junk == Tok("junk", "", FALSE, <<>>)
Quoted(key, v) == Tok("field", key, TRUE, v)
Bare(key, v) == Tok("field", key, FALSE, v)
CombineTok(v) == Tok("combine", "", TRUE, v)

\* AgLibraryCollectionContent without a row for the collection
NoRow == <<Tok("norow", "", FALSE, <<>>)>>

\* \w
WordChars == { UpperChars[i] : i \in 1..26 } \cup { LowerChars[i] : i \in 1..26 }
             \cup Digits \cup {"_"}

\* "(\w+)"
IsWord(s) == Len(s) >= 1 /\ \A i \in 1..Len(s) : s[i] \in WordChars

\* (-?[\d.]+) matched at the start of s: the matched prefix, <<>> if none
NumPrefix(s) ==
    LET from == IF Len(s) >= 1 /\ s[1] = "-" THEN 2 ELSE 1
        run  == { j \in from..Len(s) : \A k \in from..j : s[k] \in Digits \cup {"."} }
    IN  IF run = {} THEN <<>>
        ELSE SubSeq(s, 1, CHOOSE j \in run : \A k \in run : k <= j)

INTERSECT == <<"i","n","t","e","r","s","e","c","t">>

\* combine_m = re.search(r'combine\s*=\s*"(\w+)"', content): the first
\* directive with a word in it, "intersect" without one
ParseCombine(toks) ==
    LET at == { i \in 1..Len(toks) : toks[i].t = "combine" /\ IsWord(toks[i].v) }
    IN  IF at = {} THEN INTERSECT
        ELSE toks[CHOOSE i \in at : \A j \in at : i <= j].v

\* re.finditer(r'\{([^{}]+)\}', content): the token runs between a "{" and
\* the next brace when that brace is a "}", left to right, not overlapping
RECURSIVE BlocksFrom(_, _)
BlocksFrom(toks, i) ==
    IF i > Len(toks) THEN <<>>
    ELSE IF toks[i].t # "open" THEN BlocksFrom(toks, i + 1)
    ELSE LET braces == { j \in (i + 1)..Len(toks) : toks[j].t \in {"open", "close"} }
             j      == IF braces = {} THEN 0
                       ELSE CHOOSE x \in braces : \A y \in braces : x <= y
         IN  IF j # 0 /\ toks[j].t = "close" /\ j > i + 1
             THEN <<SubSeq(toks, i + 1, j - 1)>> \o BlocksFrom(toks, j + 1)
             ELSE BlocksFrom(toks, i + 1)

RuleKeys == <<"criteria", "operation", "value", "value2", "value_units">>

\* the tokens of a block that set key: quoted ones, and bare ones that start
\* with a numeric literal
QuotedAt(text, key) ==
    { i \in 1..Len(text) : text[i].t = "field" /\ text[i].key = key /\ text[i].quoted }
BareAt(text, key) ==
    { i \in 1..Len(text) : /\ text[i].t = "field" /\ text[i].key = key
                           /\ ~text[i].quoted /\ NumPrefix(text[i].v) # <<>> }

First(S) == CHOOSE i \in S : \A j \in S : i <= j

\* for key in (...): the string value first, then the numeric one
BlockRule(text) ==
    [key \in { RuleKeys[k] : k \in { n \in 1..5 :
                   QuotedAt(text, RuleKeys[n]) \cup BareAt(text, RuleKeys[n]) # {} } } |->
        IF QuotedAt(text, key) # {}
        THEN text[First(QuotedAt(text, key))].v
        ELSE NumPrefix(text[First(BareAt(text, key))].v)]

\* if "criteria" in rule: rules.append(rule)
RECURSIVE RulesOf(_)
RulesOf(blocks) ==
    IF blocks = <<>> THEN <<>>
    ELSE LET rule == BlockRule(Head(blocks)) IN
         (IF "criteria" \in DOMAIN rule THEN <<rule>> ELSE <<>>) \o RulesOf(Tail(blocks))

\* _parse_smart_rules(content) -> (rules, combine)
parse_smart_rules(toks) ==
    [rules |-> RulesOf(BlocksFrom(toks, 1)), combine |-> ParseCombine(toks)]

\* rule.get(key, "")
RuleGet(rule, key) == IF key \in DOMAIN rule THEN rule[key] ELSE <<>>

\* str.strip() for blanks
RECURSIVE Strip(_)
Strip(s) ==
    IF Len(s) >= 1 /\ s[1] = " " THEN Strip(Tail(s))
    ELSE IF Len(s) >= 1 /\ s[Len(s)] = " " THEN Strip(SubSeq(s, 1, Len(s) - 1))
    ELSE s

DigitVal(c) == CHOOSE d \in 0..9 : <<"0","1","2","3","4","5","6","7","8","9">>[d + 1] = c

\* the number a digit string writes (0 for the empty string)
RECURSIVE DigitsVal(_)
DigitsVal(s) ==
    IF s = <<>> THEN 0 ELSE 10 * DigitsVal(SubSeq(s, 1, Len(s) - 1)) + DigitVal(s[Len(s)])

RECURSIVE Pow10(_)
Pow10(n) == IF n <= 0 THEN 1 ELSE 10 * Pow10(n - 1)

\* float(): the parts of a decimal literal [sign] digits [. digits]
\* [e [sign] digits]; ok is FALSE for any other text ("", "abc", "1.2.3",
\* ".", and also "nan" and "inf", which float() takes and int() refuses).
\* The literal is taken apart one step per operator: mantissa digits and
\* exponent digits last, the sign first.
FloatAssemble(neg, hasExp, oneDot, whole, frac, exneg, exdig) ==
    LET ok == /\ oneDot
              /\ Len(whole) + Len(frac) >= 1
              /\ \A i \in 1..Len(whole) : whole[i] \in Digits
              /\ \A i \in 1..Len(frac) : frac[i] \in Digits
              /\ (hasExp => /\ Len(exdig) >= 1
                            /\ \A i \in 1..Len(exdig) : exdig[i] \in Digits)
    IN  [ok |-> ok, neg |-> neg, whole |-> whole, frac |-> frac,
         exp |-> IF ~ok \/ ~hasExp THEN 0
                 ELSE IF exneg THEN 0 - DigitsVal(exdig) ELSE DigitsVal(exdig)]

\* the mantissa split at its first dot
FloatDecimal(neg, hasExp, mant, dots, exneg, exdig) ==
    FloatAssemble(neg, hasExp, Cardinality(dots) <= 1,
                  SubSeq(mant, 1, (IF dots = {} THEN Len(mant) + 1 ELSE First(dots)) - 1),
                  SubSeq(mant, (IF dots = {} THEN Len(mant) + 1 ELSE First(dots)) + 1,
                         Len(mant)),
                  exneg, exdig)

\* the exponent's sign taken off
FloatMantissa(neg, hasExp, mant, ex) ==
    FloatDecimal(neg, hasExp, mant, { i \in 1..Len(mant) : mant[i] = "." },
                 Len(ex) >= 1 /\ ex[1] = "-",
                 IF Len(ex) >= 1 /\ ex[1] \in {"+", "-"} THEN Tail(ex) ELSE ex)

\* the unsigned literal u split at its first "e" or "E" (position e)
FloatExponent(neg, u, hasExp, e) ==
    FloatMantissa(neg, hasExp, SubSeq(u, 1, e - 1), SubSeq(u, e + 1, Len(u)))

FloatUnsigned(neg, u, es) ==
    FloatExponent(neg, u, es # {}, IF es = {} THEN Len(u) + 1 ELSE First(es))

\* the sign taken off
FloatSigned(s) ==
    FloatUnsigned(Len(s) >= 1 /\ s[1] = "-",
                  IF Len(s) >= 1 /\ s[1] \in {"+", "-"} THEN Tail(s) ELSE s,
                  { i \in 1..Len(s) : s[i] \in {"e", "E"} })

FloatParts(val) == FloatSigned(Strip(val))

\* int(float(val)) raises
IntOfFloatRaises(val) == ~FloatParts(val).ok

\* the value of the parts p with its fraction cut off
IntOfParts(p) ==
    LET m   == DigitsVal(p.whole \o p.frac)
        k   == p.exp - Len(p.frac)
        mag == IF k >= 0 THEN m * Pow10(k) ELSE m \div Pow10(0 - k)
    IN  IF p.neg THEN 0 - mag ELSE mag

\* int(float(val))
IntOfFloat(val) == IntOfParts(FloatParts(val))

COCOA_EPOCH == 978307200
SECONDS_PER_DAY == 86400
SECONDS_PER_MONTH == 2592000

\* {"days": 86400, "months": 2592000}.get(units, 86400)
Multiplier(units) ==
    IF units = <<"m","o","n","t","h","s">> THEN SECONDS_PER_MONTH ELSE SECONDS_PER_DAY

\* colors.get(val, val)
ColorName(val) ==
    IF val = <<"1">> THEN <<"R","e","d">>
    ELSE IF val = <<"2">> THEN <<"Y","e","l","l","o","w">>
    ELSE IF val = <<"3">> THEN <<"G","r","e","e","n">>
    ELSE IF val = <<"4">> THEN <<"B","l","u","e">>
    ELSE IF val = <<"5">> THEN <<"P","u","r","p","l","e">>
    ELSE val

\* what _rule_to_sql does: returns a clause (the SQL template sql filled
\* with val, units or the number num), returns None, or raises
Clause(sql, val, units, num) ==
    [res |-> "clause", sql |-> sql, val |-> val, units |-> units, num |-> num]
None == [res |-> "none", sql |-> "", val |-> <<>>, units |-> <<>>, num |-> 0]
Raise == [res |-> "raise", sql |-> "", val |-> <<>>, units |-> <<>>, num |-> 0]

\* a rating rule of any operation compiled as an equality
RatingClauseMutAnyOp(op, val) == Clause("i.rating = {val}", val, <<>>, 0)

\* elif criteria == "rating"
RatingClause(op, val) ==
    IF op = <<"=","=">> THEN Clause("i.rating = {val}", val, <<>>, 0)
    ELSE IF op = <<">","=">> THEN Clause("i.rating >= {val}", val, <<>>, 0)
    ELSE None

rule_to_sql(rule, now) ==
    LET criteria == RuleGet(rule, "criteria")
        op       == RuleGet(rule, "operation")
        val      == RuleGet(rule, "value")
        units    == RuleGet(rule, "value_units")
    IN  IF criteria = <<"c","a","p","t","u","r","e","T","i","m","e">>
        THEN IF op = <<">">> THEN Clause("i.captureTime > '{val}'", val, <<>>, 0)
             ELSE IF op = <<"<">> THEN Clause("i.captureTime < '{val}'", val, <<>>, 0)
             ELSE IF op = <<"=","=">>
                  THEN Clause("i.captureTime >= '{val}' AND i.captureTime < date('{val}', '+1 day')",
                              val, <<>>, 0)
             ELSE IF op = <<"i","n","L","a","s","t">>
                  THEN Clause("i.captureTime > datetime('now', '-{val} {units}')", val, units, 0)
             ELSE None
        ELSE IF criteria = <<"p","i","c","k">>
        THEN Clause("i.pick = {val}", val, <<>>, 0)
        ELSE IF criteria = <<"r","a","t","i","n","g">>
        THEN RatingClause(op, val)
        ELSE IF criteria = <<"f","i","l","e","F","o","r","m","a","t">>
        THEN IF op = <<"=","=">> THEN Clause("i.fileFormat = '{val}'", val, <<>>, 0)
             ELSE IF op = <<"!","=">>
                  THEN Clause("(i.fileFormat IS NULL OR i.fileFormat != '{val}')", val, <<>>, 0)
             ELSE None
        ELSE IF criteria = <<"k","e","y","w","o","r","d","s">>
        THEN IF op = <<"a","n","y">>
             THEN Clause("EXISTS (... AND k.lc_name = '{lc_val}')", Lower(val), <<>>, 0)
             ELSE IF op = <<"e","m","p","t","y">>
                  THEN Clause("NOT EXISTS (... WHERE ki.image = i.id_local)", <<>>, <<>>, 0)
             ELSE None
        ELSE IF criteria = <<"f","o","c","a","l","L","e","n","g","t","h">>
        THEN IF op = <<"<">> THEN Clause("exif.focalLength < {val}", val, <<>>, 0)
             ELSE IF op = <<">">> THEN Clause("exif.focalLength > {val}", val, <<>>, 0)
             ELSE None
        ELSE IF criteria = <<"l","a","b","e","l","C","o","l","o","r">>
        THEN Clause("i.colorLabels = '{name}'", ColorName(val), <<>>, 0)
        ELSE IF criteria = <<"t","o","u","c","h","T","i","m","e">>
        THEN IF IntOfFloatRaises(val) THEN Raise
             ELSE Clause("i.touchTime > {threshold}", <<>>, <<>>,
                         now - IntOfFloat(val) * Multiplier(units))
        ELSE None

\* ---------------------------------------------------------------------
\* LrCCatalog: the catalog the compiled query runs on
\* ---------------------------------------------------------------------

\* a row of Adobe_images with its keywords (lc_name) and its exif row;
\* nulls names the columns that are NULL (focalLength: no exif row)
Image(i, pick, rating, fmt, cap, color, touch, kw, focal, nulls) ==
    [id |-> i, pick |-> pick, rating |-> rating, fileFormat |-> fmt,
     captureTime |-> cap, colorLabels |-> color, touchTime |-> touch,
     keywords |-> kw, focalLength |-> focal, nulls |-> nulls]

CatalogImages == {
    Image(1, 1, 3, <<"R","A","W">>, <<"2","0","2","4","-","0","1","-","0","2","T","1","0",":","0","0",":","0","0">>, <<"R","e","d">>, 726500000, {<<"r","a","w">>}, 60, {}),
    Image(2, 0, 5, <<"J","P","G">>, <<"2","0","2","3","-","0","6","-","0","1","T","0","8",":","0","0",":","0","0">>, <<>>, 600000000, {}, 24, {}),
    Image(3, 1, 0, <<>>, <<"2","0","2","4","-","0","1","-","0","9","T","0","9",":","0","0",":","0","0">>, <<"G","r","e","e","n">>, 726000000, {<<"s","k","y">>}, 0,
          {"fileFormat", "focalLength"}),
    Image(4, 0, 3, <<"R","A","W">>, <<"2","0","2","4","-","0","1","-","0","2","T","2","3",":","5","9",":","5","9">>, <<"a","b","c">>, 0, {<<"r","a","w">>, <<"s","k","y">>}, 50,
          {"touchTime"}) }

\* time.time() of the run, and the same instant as SQLite's 'now'
UNIX_NOW == 1704888000
SQL_NOW == <<"2","0","2","4","-","0","1","-","1","0"," ","1","2",":","0","0",":","0","0">>

\* int(time.time()) - 978307200
CocoaNow(unix) == unix - COCOA_EPOCH

SqlNull == <<"NULL">>

\* SQLite's date('{val}', '+1 day') on the values of the model
SqlDatePlusDay(val) ==
    IF val = <<"1">> THEN <<"-","4","7","1","3","-","1","1","-","2","6">>
    ELSE IF val = <<"3">> THEN <<"-","4","7","1","3","-","1","1","-","2","8">>
    ELSE IF val = <<"2",".","5">> THEN <<"-","4","7","1","3","-","1","1","-","2","8">>
    ELSE IF val = <<"5","0">> THEN <<"-","4","7","1","2","-","0","1","-","1","4">>
    ELSE IF val = <<"2","0","2","4","-","0","1","-","0","2">> THEN <<"2","0","2","4","-","0","1","-","0","3">>
    ELSE SqlNull

\* SQLite's datetime('now', '-{val} {units}') at SQL_NOW on the values and
\* units of the model
SqlDateTimeBefore(val, units) ==
    IF val = <<"1">> /\ units = <<"d","a","y","s">> THEN <<"2","0","2","4","-","0","1","-","0","9"," ","1","2",":","0","0",":","0","0">>
    ELSE IF val = <<"1">> /\ units = <<"m","o","n","t","h","s">> THEN <<"2","0","2","3","-","1","2","-","1","0"," ","1","2",":","0","0",":","0","0">>
    ELSE IF val = <<"3">> /\ units = <<"d","a","y","s">> THEN <<"2","0","2","4","-","0","1","-","0","7"," ","1","2",":","0","0",":","0","0">>
    ELSE IF val = <<"3">> /\ units = <<"m","o","n","t","h","s">> THEN <<"2","0","2","3","-","1","0","-","1","0"," ","1","2",":","0","0",":","0","0">>
    ELSE IF val = <<"2",".","5">> /\ units = <<"d","a","y","s">> THEN <<"2","0","2","4","-","0","1","-","0","8"," ","0","0",":","0","0",":","0","0">>
    ELSE IF val = <<"2",".","5">> /\ units = <<"m","o","n","t","h","s">> THEN <<"2","0","2","3","-","1","0","-","2","6"," ","1","2",":","0","0",":","0","0">>
    ELSE IF val = <<"5","0">> /\ units = <<"d","a","y","s">> THEN <<"2","0","2","3","-","1","1","-","2","1"," ","1","2",":","0","0",":","0","0">>
    ELSE IF val = <<"5","0">> /\ units = <<"m","o","n","t","h","s">> THEN <<"2","0","1","9","-","1","1","-","1","0"," ","1","2",":","0","0",":","0","0">>
    ELSE SqlNull

\* code point order of the characters of a timestamp
SqlOrd(c) == IF c = " " THEN 32 ELSE IF c = ":" THEN 58 ELSE Ord(c)

\* s < t for SQLite TEXT values (BINARY collation)
RECURSIVE SqlTextLess(_, _)
SqlTextLess(s, t) ==
    IF Len(t) = 0 THEN FALSE
    ELSE IF Len(s) = 0 THEN TRUE
    ELSE IF s[1] # t[1] THEN SqlOrd(s[1]) < SqlOrd(t[1])
    ELSE SqlTextLess(Tail(s), Tail(t))

\* the number the parts p of a decimal literal write, in thousandths
MilliOfParts(p) ==
    LET m == DigitsVal(p.whole \o p.frac)
        k == p.exp - Len(p.frac) + 3
        mag == IF k >= 0 THEN m * Pow10(k) ELSE m \div Pow10(0 - k)
    IN  IF p.neg THEN 0 - mag ELSE mag

LiteralMilli(val) == MilliOfParts(FloatParts(val))

\* {val} spliced into the query as an SQL expression: a numeric literal, or
\* a subtraction of numeric literals ("2024-01-02" is 2024 - 1 - 2); any
\* other text of the model is an unknown column or a syntax error
RECURSIVE SqlExpr(_)
SqlExpr(val) ==
    LET minus == { i \in 2..Len(val) : val[i] = "-" }
        last  == CHOOSE i \in minus : \A j \in minus : j <= i
        left  == SqlExpr(SubSeq(val, 1, last - 1))
        right == SubSeq(val, last + 1, Len(val))
    IN  IF FloatParts(val).ok THEN [ok |-> TRUE, milli |-> LiteralMilli(val)]
        ELSE IF minus # {} /\ left.ok /\ FloatParts(right).ok /\ ~FloatParts(right).neg
             THEN [ok |-> TRUE, milli |-> left.milli - LiteralMilli(right)]
        ELSE [ok |-> FALSE, milli |-> 0]

\* the templates that splice {val} in as an expression
NumericTemplates == {"i.pick = {val}", "i.rating = {val}", "i.rating >= {val}",
                     "exif.focalLength < {val}", "exif.focalLength > {val}"}

\* conn.execute raises sqlite3.OperationalError on the clause
ClauseMalformed(c) == c.sql \in NumericTemplates /\ ~SqlExpr(c.val).ok

\* SQL's three truth values
Bool3(b) == IF b THEN "T" ELSE "F"
And3(a, b) == IF a = "F" \/ b = "F" THEN "F" ELSE IF a = "T" /\ b = "T" THEN "T" ELSE "N"
Or3(a, b) == IF a = "T" \/ b = "T" THEN "T" ELSE IF a = "F" /\ b = "F" THEN "F" ELSE "N"

\* the truth value of a well-formed clause on an image
Eval(c, img) ==
    LET num == SqlExpr(c.val).milli
        cap == img.captureTime
        nxt == SqlDatePlusDay(c.val)
        bef == SqlDateTimeBefore(c.val, c.units)
    IN  IF c.sql = "i.captureTime > '{val}'"
        THEN IF "captureTime" \in img.nulls THEN "N" ELSE Bool3(SqlTextLess(c.val, cap))
        ELSE IF c.sql = "i.captureTime < '{val}'"
        THEN IF "captureTime" \in img.nulls THEN "N" ELSE Bool3(SqlTextLess(cap, c.val))
        ELSE IF c.sql = "i.captureTime >= '{val}' AND i.captureTime < date('{val}', '+1 day')"
        THEN IF "captureTime" \in img.nulls THEN "N"
             ELSE And3(Bool3(~SqlTextLess(cap, c.val)),
                       IF nxt = SqlNull THEN "N" ELSE Bool3(SqlTextLess(cap, nxt)))
        ELSE IF c.sql = "i.captureTime > datetime('now', '-{val} {units}')"
        THEN IF "captureTime" \in img.nulls \/ bef = SqlNull THEN "N"
             ELSE Bool3(SqlTextLess(bef, cap))
        ELSE IF c.sql = "i.pick = {val}"
        THEN IF "pick" \in img.nulls THEN "N" ELSE Bool3(img.pick * 1000 = num)
        ELSE IF c.sql = "i.rating = {val}"
        THEN IF "rating" \in img.nulls THEN "N" ELSE Bool3(img.rating * 1000 = num)
        ELSE IF c.sql = "i.rating >= {val}"
        THEN IF "rating" \in img.nulls THEN "N" ELSE Bool3(img.rating * 1000 >= num)
        ELSE IF c.sql = "i.fileFormat = '{val}'"
        THEN IF "fileFormat" \in img.nulls THEN "N" ELSE Bool3(img.fileFormat = c.val)
        ELSE IF c.sql = "(i.fileFormat IS NULL OR i.fileFormat != '{val}')"
        THEN IF "fileFormat" \in img.nulls THEN "T" ELSE Bool3(img.fileFormat # c.val)
        ELSE IF c.sql = "EXISTS (... AND k.lc_name = '{lc_val}')"
        THEN Bool3(c.val \in img.keywords)
        ELSE IF c.sql = "NOT EXISTS (... WHERE ki.image = i.id_local)"
        THEN Bool3(img.keywords = {})
        ELSE IF c.sql = "exif.focalLength < {val}"
        THEN IF "focalLength" \in img.nulls THEN "N" ELSE Bool3(img.focalLength * 1000 < num)
        ELSE IF c.sql = "exif.focalLength > {val}"
        THEN IF "focalLength" \in img.nulls THEN "N" ELSE Bool3(img.focalLength * 1000 > num)
        ELSE IF c.sql = "i.colorLabels = '{name}'"
        THEN IF "colorLabels" \in img.nulls THEN "N" ELSE Bool3(img.colorLabels = c.val)
        ELSE IF "touchTime" \in img.nulls THEN "N" ELSE Bool3(img.touchTime > c.num)

\* every compiled predicate joined with AND
JoinerMutAllAnd(comb) == " AND "

\* joiner = " AND " if combine == "intersect" else " OR "
Joiner(comb) == IF comb = INTERSECT THEN " AND " ELSE " OR "

\* WHERE (c1) joiner (c2) ... on an image
RECURSIVE WhereValue(_, _, _)
WhereValue(clauses, joiner, img) ==
    IF Len(clauses) = 1 THEN Eval(clauses[1], img)
    ELSE LET l == WhereValue(SubSeq(clauses, 1, Len(clauses) - 1), joiner, img)
             r == Eval(clauses[Len(clauses)], img)
         IN  IF joiner = " AND " THEN And3(l, r) ELSE Or3(l, r)

\* the images the SELECT returns
Select(clauses, joiner) ==
    { img.id : img \in { x \in CatalogImages : WhereValue(clauses, joiner, x) = "T" } }

\* ---------------------------------------------------------------------
\* LrCCatalog.smart_collection_files, one step per statement group
\* ---------------------------------------------------------------------

MaxPieces == 3          \* pieces of rule text between the outer braces

Absent == <<"absent">>

Criteria == {<<"c","a","p","t","u","r","e","T","i","m","e">>, <<"p","i","c","k">>, <<"r","a","t","i","n","g">>, <<"f","i","l","e","F","o","r","m","a","t">>, <<"k","e","y","w","o","r","d","s">>,
             <<"f","o","c","a","l","L","e","n","g","t","h">>, <<"l","a","b","e","l","C","o","l","o","r">>, <<"t","o","u","c","h","T","i","m","e">>, <<"i","s","o">>}
Operations == {<<">">>, <<"<">>, <<"=","=">>, <<">","=">>, <<"!","=">>, <<"i","n","L","a","s","t">>, <<"a","n","y">>, <<"e","m","p","t","y">>, <<"a","l","l">>}
Values == {<<>>, <<"1">>, <<"3">>, <<"2",".","5">>, <<"5","0">>, <<"a","b","c">>, <<"R","A","W">>, <<"2","0","2","4","-","0","1","-","0","2">>}
UnitNames == {<<"d","a","y","s">>, <<"m","o","n","t","h","s">>, <<"w","e","e","k","s">>}

\* { criteria = "c", operation = "o", value = "v", value_units = "u" } with
\* the absent keys left out
RuleBlock(c, o, v, u) ==
    <<Open, Quoted("criteria", c), Quoted("operation", o)>>
    \o (IF v = Absent THEN <<>> ELSE <<Quoted("value", v)>>)
    \o (IF u = Absent THEN <<>> ELSE <<Quoted("value_units", u)>>)
    \o <<Close>>

\* rule texts with one rule
SingleRuleContents ==
    { <<Open>> \o RuleBlock(c, o, v, u) \o <<Close>> :
        c \in Criteria, o \in Operations,
        v \in Values \cup {Absent}, u \in UnitNames \cup {Absent} }

\* what longer rule texts are made of: rules with numbers written bare,
\* an unsupported pair, a block without criteria, combine directives, text
\* that is no rule, and a rule with a value that is no number
Pieces == {
    <<Open, Quoted("criteria", <<"r","a","t","i","n","g">>), Quoted("operation", <<">","=">>), Bare("value", <<"3">>), Close>>,
    <<Open, Quoted("criteria", <<"p","i","c","k">>), Quoted("operation", <<"=","=">>), Bare("value", <<"1">>), Close>>,
    RuleBlock(<<"f","i","l","e","F","o","r","m","a","t">>, <<"!","=">>, <<"R","A","W">>, Absent),
    RuleBlock(<<"k","e","y","w","o","r","d","s">>, <<"a","n","y">>, <<"S","k","y">>, Absent),
    <<Open, Quoted("criteria", <<"f","o","c","a","l","L","e","n","g","t","h">>), Quoted("operation", <<">">>), Bare("value", <<"5","0">>), Close>>,
    RuleBlock(<<"r","a","t","i","n","g">>, <<"<">>, <<"3">>, Absent),
    <<Open, Quoted("operation", <<"=","=">>), Bare("value", <<"3">>), Close>>,
    RuleBlock(<<"t","o","u","c","h","T","i","m","e">>, <<">">>, <<"a","b","c">>, <<"d","a","y","s">>),
    <<CombineTok(<<"u","n","i","o","n">>)>>,
    <<CombineTok(INTERSECT)>>,
    <<CombineTok(<<"a"," ","b">>)>>,
    <<Junk>> }

RECURSIVE Concats(_)
Concats(n) ==
    IF n = 0 THEN {<<>>}
    ELSE LET prev == Concats(n - 1) IN prev \cup { p \o q : p \in prev, q \in Pieces }

Contents ==
    {NoRow} \cup SingleRuleContents
    \cup { <<Open>> \o s \o <<Close>> : s \in Concats(MaxPieces) }
    \cup Concats(1)

\* a catalog with one smart collection that is being resolved
InitRules ==
    /\ dry_run = FALSE /\ do_stacks = FALSE /\ do_prune = FALSE
    /\ sync_metadata = FALSE /\ collection_filter = ""
    /\ catalog = <<>>
    /\ srv_assets = <<>> /\ srv_albums = <<>>
    /\ srv_stacks = EmptyMap /\ stacks0 = EmptyMap
    /\ srv_favorite = {} /\ srv_rating = EmptyMap
    /\ pc = "resolve"
    /\ asset_index = <<>> /\ album_by_name = EmptyMap
    /\ stem_best = EmptyMap /\ promote = EmptyMap
    /\ collections = <<>> /\ ci = 1
    /\ synced = 0 /\ created = 0 /\ skipped = 0 /\ errors = 0
    /\ meta_records = <<>> /\ resolve_log = <<>>
    /\ stem_groups = <<>> /\ asset_to_stack = EmptyMap /\ gi = 1
    /\ stacks_created = 0 /\ stacks_updated = 0 /\ stacks_skipped = 0
    /\ calls = <<>> /\ reports = <<>>
    /\ content \in Contents
    /\ cocoa_now = CocoaNow(UNIX_NOW)
    /\ spc = "start"
    /\ rules = <<>> /\ combine = <<>> /\ ri = 1
    /\ where_clauses = <<>> /\ needs_exif = FALSE
    /\ sql_log = <<>> /\ rows = {}
    /\ fname = <<>> /\ stem1 = <<>> /\ stem2 = <<>> /\ npc = "idle"

RunVars == <<args, server, pc, phase1, phase3, phase5, output>>

\* row = conn.execute(SELECT content ...).fetchone(); if not row: return []
FetchRuleText ==
    /\ spc = "start"
    /\ spc' = IF content = NoRow THEN "done" ELSE "parse"
    /\ rows' = {}
    /\ UNCHANGED <<RunVars, stems, content, cocoa_now, rules, combine, ri, where_clauses,
                   needs_exif, sql_log>>

\* rules, combine = self._parse_smart_rules(content); if not rules: return []
ParseRules ==
    /\ spc = "parse"
    /\ \E p \in {parse_smart_rules(content)} :
        /\ rules' = p.rules
        /\ combine' = p.combine
        /\ spc' = IF p.rules = <<>> THEN "done" ELSE "compile"
    /\ ri' = 1
    /\ where_clauses' = <<>>
    /\ needs_exif' = FALSE
    /\ UNCHANGED <<RunVars, stems, content, cocoa_now, sql_log, rows>>

\* the body of "for r in rules" for rules[ri]
CompileRule ==
    /\ spc = "compile"
    /\ ri <= Len(rules)
    /\ \E clause \in {rule_to_sql(rules[ri], cocoa_now)} :
        IF clause.res = "raise"
        THEN /\ spc' = "compile_raised"
             /\ UNCHANGED <<ri, where_clauses, needs_exif>>
        ELSE /\ where_clauses' = IF clause.res = "clause"
                                 THEN Append(where_clauses, clause) ELSE where_clauses
             /\ needs_exif' = (needs_exif \/ rules[ri]["criteria"] = <<"f","o","c","a","l","L","e","n","g","t","h">>)
             /\ ri' = ri + 1
             /\ spc' = spc
    /\ UNCHANGED <<RunVars, stems, content, cocoa_now, rules, combine, sql_log, rows>>

\* every predicate list counts as one with predicates
NoClausesMutNever(where) == FALSE

\* if not where_clauses
NoClauses(where) == where = <<>>

\* after the loop: if not where_clauses: return []
CheckClauses ==
    /\ spc = "compile"
    /\ ri > Len(rules)
    /\ spc' = IF NoClauses(where_clauses) THEN "done" ELSE "query"
    /\ UNCHANGED <<RunVars, stems, content, cocoa_now, rules, combine, ri, where_clauses,
                   needs_exif, sql_log, rows>>

\* rows = conn.execute(SELECT ... WHERE {where}).fetchall()
ExecuteQuery ==
    /\ spc = "query"
    /\ \E joiner \in {Joiner(combine)} :
        /\ sql_log' = Append(sql_log, [joiner |-> joiner, clauses |-> where_clauses,
                                       exif |-> needs_exif])
        /\ IF where_clauses = <<>> \/ \E k \in 1..Len(where_clauses) :
                                          ClauseMalformed(where_clauses[k])
           THEN spc' = "query_raised" /\ rows' = rows
           ELSE spc' = "done" /\ rows' = Select(where_clauses, joiner)
    /\ UNCHANGED <<RunVars, stems, content, cocoa_now, rules, combine, ri, where_clauses,
                   needs_exif>>

NextRules ==
    \/ FetchRuleText
    \/ ParseRules
    \/ CompileRule
    \/ CheckClauses
    \/ ExecuteQuery

SpecRules == InitRules /\ [][NextRules]_vars

\* ---------------------------------------------------------------------
\* Smart collection claims
\* ---------------------------------------------------------------------

\* C12: a smart collection whose rules compile to an empty predicate list
\* (no rule block, or only unsupported criteria/operation pairs) resolves
\* to an empty collection: no query is executed without a WHERE
\* restriction, so the call never returns all images.
C12_EmptyPredicatesEmptyCollection ==
    /\ \A k \in 1..Len(sql_log) : sql_log[k].clauses # <<>>
    /\ (spc \in {"query", "query_raised", "done"} /\ where_clauses = <<>>)
           => (spc = "done" /\ rows = {} /\ sql_log = <<>>)

\* a call that parsed rules, compiled none of them and returned
C12_Witness ==
    /\ spc = "done"
    /\ rules # <<>>
    /\ ri > Len(rules)
    /\ where_clauses = <<>>
    /\ rows = {}

\* C13: compiling a rule never raises: whatever its criteria, operation,
\* value and unit (present, absent, empty or not a number), the
\* rule-to-predicate step returns a predicate or nothing.
C13_CompileNeverRaises == spc # "compile_raised"

\* the supported criteria/operation table
SupportedPair(rule) ==
    LET criteria == RuleGet(rule, "criteria")
        op       == RuleGet(rule, "operation")
    IN  \/ criteria = <<"c","a","p","t","u","r","e","T","i","m","e">> /\ op \in {<<">">>, <<"<">>, <<"=","=">>, <<"i","n","L","a","s","t">>}
        \/ criteria = <<"r","a","t","i","n","g">> /\ op \in {<<"=","=">>, <<">","=">>}
        \/ criteria = <<"f","i","l","e","F","o","r","m","a","t">> /\ op \in {<<"=","=">>, <<"!","=">>}
        \/ criteria = <<"k","e","y","w","o","r","d","s">> /\ op \in {<<"a","n","y">>, <<"e","m","p","t","y">>}
        \/ criteria = <<"f","o","c","a","l","L","e","n","g","t","h">> /\ op \in {<<"<">>, <<">">>}
        \/ criteria \in {<<"p","i","c","k">>, <<"l","a","b","e","l","C","o","l","o","r">>, <<"t","o","u","c","h","T","i","m","e">>}

\* C14: a rule yields a predicate exactly when its criteria/operation pair
\* is in the supported table; any other rule yields none.
C14_PredicateIffSupported ==
    [][(spc = "compile" /\ ri <= Len(rules))
         => ((where_clauses' = Append(where_clauses, rule_to_sql(rules[ri], cocoa_now))
                 /\ rule_to_sql(rules[ri], cocoa_now).res = "clause")
               <=> SupportedPair(rules[ri]))]_vars

\* the images on which every, or at least one, retained predicate is true
SatisfyAll(clauses) ==
    { img.id : img \in { x \in CatalogImages :
                           \A k \in 1..Len(clauses) : Eval(clauses[k], x) = "T" } }
SatisfyAny(clauses) ==
    { img.id : img \in { x \in CatalogImages :
                           \E k \in 1..Len(clauses) : Eval(clauses[k], x) = "T" } }

\* C15: the compiled predicates are joined with AND when the stored
\* combinator is intersect and with OR otherwise; the combinator is
\* intersect when the rule text has no combine directive; so under
\* intersect the members are the images that satisfy every retained
\* predicate, and otherwise those that satisfy at least one.
C15_JoinedByCombinator ==
    /\ (spc \notin {"start", "parse"} /\ content # NoRow
          /\ \A k \in 1..Len(content) : content[k].t # "combine")
           => combine = INTERSECT
    /\ \A k \in 1..Len(sql_log) :
           sql_log[k].joiner = (IF combine = INTERSECT THEN " AND " ELSE " OR ")
    /\ (spc = "done" /\ sql_log # <<>>)
           => rows = (IF combine = INTERSECT THEN SatisfyAll(where_clauses)
                      ELSE SatisfyAny(where_clauses))

\* a union of several predicates returned an image that does not satisfy
\* all of them
C15_Witness ==
    /\ spc = "done"
    /\ sql_log # <<>>
    /\ combine # INTERSECT
    /\ Len(where_clauses) >= 2
    /\ rows = SatisfyAny(where_clauses)
    /\ rows # SatisfyAll(where_clauses)

\* ---------------------------------------------------------------------
\* Failure handling and eligibility claims
\* ---------------------------------------------------------------------

StartupOps == {"users_me", "search", "albums_list"}

\* a startup fetch got an error from the server
StartupFailed ==
    \E n \in 1..Len(calls) : calls[n].op \in StartupOps /\ ~calls[n].ok

\* C16: when fetching the invoking user's id, the asset index or the album
\* list fails at startup, the run exits without processing a collection
\* and without a remote mutation.
C16_StartupFailureAborts ==
    StartupFailed =>
        /\ pc = "exit"
        /\ \A n \in 1..Len(calls) : calls[n].op \in StartupOps
        /\ ~calls[Len(calls)].ok
        /\ collections = <<>> /\ ci = 1 /\ gi = 1
        /\ synced = 0 /\ created = 0 /\ skipped = 0 /\ errors = 0
        /\ reports = <<>>
        /\ srv_stacks = stacks0 /\ srv_favorite = {} /\ srv_rating = EmptyMap

\* the album list failed after the asset index was built, on a server and
\* a catalog with work to do
C16_Witness ==
    /\ pc = "exit"
    /\ Len(calls) = 3
    /\ calls[3].op = "albums_list" /\ ~calls[3].ok
    /\ asset_index # <<>>
    /\ catalog # <<>>
    /\ ~dry_run

\* the failed resolve_collection calls and the failed album create / add
\* requests of the run
FailedResolves == { n \in 1..Len(resolve_log) : ~resolve_log[n].ok }
FailedAlbumCalls ==
    { n \in 1..Len(calls) : calls[n].op \in {"album_create", "album_add"} /\ ~calls[n].ok }

\* C17: a failed resolution, album create or album add in the album loop
\* adds one to the error counter, the loop goes on to every later
\* collection, and the failed operation is not attempted again for that
\* collection.
C17_PerItemFailureContinues ==
    /\ errors = Cardinality(FailedResolves) + Cardinality(FailedAlbumCalls)
    /\ \A c \in 1..Len(collections) :
        /\ Cardinality({ n \in 1..Len(resolve_log) : resolve_log[n].coll = c })
               = (IF c < ci /\ collection_filter \in {"", collections[c].name} THEN 1 ELSE 0)
        /\ \A op \in {"album_create", "album_add"} :
               Cardinality({ n \in 1..Len(calls) :
                               calls[n].op = op /\ calls[n].coll = c }) <= 1
    /\ pc \in {"meta", "stacks", "stackloop", "done"} => ci = Len(collections) + 1

\* the first collection failed to resolve or to get its album, and the
\* second one was synced after it
C17_Witness ==
    /\ pc = "done"
    /\ Len(collections) >= 2
    /\ errors >= 1
    /\ \/ \E n \in FailedResolves : resolve_log[n].coll = 1
       \/ \E n \in FailedAlbumCalls : calls[n].coll = 1
    /\ \E n \in 1..Len(calls) :
           calls[n].op = "album_add" /\ calls[n].coll = 2 /\ calls[n].ok

\* the assets of the server that another user owns
OtherIds == { srv_assets[n].id : n \in { k \in 1..Len(srv_assets) : srv_assets[k].ownerId # Me } }

\* C18: no asset owned by another user is added to an album, is a
\* promotion key or target, or is part of a stack the run creates, even
\* when it shares a file name or stem with an asset of the invoking user.
C18_OnlyOwnAssets ==
    /\ \A n \in 1..Len(calls) :
           calls[n].op \in {"album_add", "stack_create"}
               => /\ calls[n].op = "stack_create" => calls[n].obj \notin OtherIds
                  /\ \A k \in 1..Len(calls[n].ids) : calls[n].ids[k] \notin OtherIds
    /\ \A a \in DOMAIN promote : a \notin OtherIds /\ promote[a] \notin OtherIds
    /\ \A n \in 1..Len(reports) :
           \A k \in 1..Len(reports[n].ids) : reports[n].ids[k] \notin OtherIds

\* a run on a server where another user's a.tiff shares its stem with own
\* assets: it promoted, added to an album and created a stack
C18_Witness ==
    /\ pc = "done"
    /\ \E o \in OtherIds : \E n \in 1..Len(srv_assets) :
           /\ srv_assets[n].ownerId = Me
           /\ Stem(srv_assets[n].originalFileName) = Stem(AssetPool[o].originalFileName)
    /\ promote # EmptyMap
    /\ \E n \in 1..Len(calls) : calls[n].op = "album_add" /\ calls[n].ok
    /\ \E n \in 1..Len(calls) : calls[n].op = "stack_create" /\ calls[n].ok

\* ---------------------------------------------------------------------
\* normalize_stem applied to its own result
\* ---------------------------------------------------------------------

MaxParts == 3           \* parts a file name is put together from

NameParts == {<<"a">>, <<"B">>, <<"-","1">>, <<"-","2">>, <<"-","D","x","O","_","x">>, <<".","j","p","g">>, <<".","b">>, <<"/">>}

RECURSIVE NamesOf(_)
NamesOf(n) ==
    IF n = 0 THEN {<<>>}
    ELSE LET prev == NamesOf(n - 1) IN prev \cup { p \o q : p \in prev, q \in NameParts }

\* a file name to normalize; nothing else is running
InitStem ==
    /\ dry_run = FALSE /\ do_stacks = FALSE /\ do_prune = FALSE
    /\ sync_metadata = FALSE /\ collection_filter = ""
    /\ catalog = <<>>
    /\ srv_assets = <<>> /\ srv_albums = <<>>
    /\ srv_stacks = EmptyMap /\ stacks0 = EmptyMap
    /\ srv_favorite = {} /\ srv_rating = EmptyMap
    /\ pc = "stem"
    /\ asset_index = <<>> /\ album_by_name = EmptyMap
    /\ stem_best = EmptyMap /\ promote = EmptyMap
    /\ collections = <<>> /\ ci = 1
    /\ synced = 0 /\ created = 0 /\ skipped = 0 /\ errors = 0
    /\ meta_records = <<>> /\ resolve_log = <<>>
    /\ stem_groups = <<>> /\ asset_to_stack = EmptyMap /\ gi = 1
    /\ stacks_created = 0 /\ stacks_updated = 0 /\ stacks_skipped = 0
    /\ calls = <<>> /\ reports = <<>>
    /\ content = <<>> /\ cocoa_now = 0 /\ spc = "idle"
    /\ rules = <<>> /\ combine = <<>> /\ ri = 1
    /\ where_clauses = <<>> /\ needs_exif = FALSE
    /\ sql_log = <<>> /\ rows = {}
    /\ fname \in NamesOf(MaxParts)
    /\ stem1 = <<>> /\ stem2 = <<>>
    /\ npc = "start"

\* normalize_stem(filename)
NormalizeName ==
    /\ npc = "start"
    /\ stem1' = normalize_stem(fname)
    /\ npc' = "once"
    /\ UNCHANGED <<RunVars, smart, fname, stem2>>

\* normalize_stem(stem)
NormalizeStem ==
    /\ npc = "once"
    /\ stem2' = normalize_stem(stem1)
    /\ npc' = "twice"
    /\ UNCHANGED <<RunVars, smart, fname, stem1>>

NextStem ==
    \/ NormalizeName
    \/ NormalizeStem

SpecStem == InitStem /\ [][NextStem]_vars

\* C19: normalize_stem is idempotent on its own output: applied again to
\* the stem it returned (a stem without an extension), it returns the same
\* stem.
C19_NormalizeStemIdempotent ==
    (npc = "twice" /\ \A i \in 1..Len(stem1) : stem1[i] # ".") => stem2 = stem1

\* the requests a step sends
NewCalls == SubSeq(calls', Len(calls) + 1, Len(calls'))

\* C20: assets leave an album for being absent from the collection only
\* with --prune. Without it a sync removes from an album only lower-quality
\* duplicates whose promotion target is in the album; with it (no dry run,
\* the album fetch and the remove succeeding) the album holds no asset
\* outside the matched ids once the collection is synced.
C20_PruneOnlyWithFlag ==
    [][LET new   == NewCalls
           adds  == { n \in 1..Len(new) : new[n].op = "album_add" }
           gets  == { n \in 1..Len(new) : new[n].op = "album_get" }
           last  == CHOOSE n \in gets : \A m \in gets : m <= n
       IN  /\ ~do_prune =>
                /\ \A n \in 1..Len(new) : new[n].op # "album_prune"
                /\ \A k \in 1..Len(srv_albums) :
                       \A c \in srv_albums[k].assets \ srv_albums'[k].assets :
                           /\ c \in DOMAIN promote
                           /\ promote[c] \in srv_albums'[k].assets
           /\ (do_prune /\ ~dry_run /\ adds # {} /\ gets # {}) =>
                \A a \in adds :
                    (/\ new[last].ok
                     /\ \A n \in 1..Len(new) : new[n].op = "album_prune" => new[n].ok)
                        => srv_albums'[new[a].obj].assets \subseteq Range(new[a].ids)
      ]_vars

\* a run with --prune took an asset that is no duplicate out of an album
C20_Witness ==
    /\ do_prune
    /\ \E n \in 1..Len(calls) :
           /\ calls[n].op = "album_prune" /\ calls[n].ok
           /\ \E k \in 1..Len(calls[n].ids) : calls[n].ids[k] \notin DOMAIN promote
           /\ srv_albums[calls[n].obj].assets # {}

\* the members of a stem group all have the same format extension
SameFormat(group) ==
    \A i, j \in 1..Len(group) : Lower(group[i].ext) = Lower(group[j].ext)

\* C21: promotion-map entries are built only for stem groups that have two
\* members of distinct formats: in a stem group whose members all share the
\* same format extension no member is promoted to another.
C21_SameFormatNotPromoted ==
    PromoteBuilt =>
        LET gs == Groups IN
        \A g \in 1..Len(gs) :
            SameFormat(gs[g].group) => GroupIds(gs[g].group) \cap DOMAIN promote = {}

\* C22: every asset id passed to addAlbumMembers is canonical: it is an
\* indexed asset that is never a key of the promotion map, and the id list
\* passed for one collection holds no id twice.
C22_AddedIdsCanonical ==
    \A n \in 1..Len(calls) :
        calls[n].op = "album_add" =>
            LET ids == calls[n].ids IN
            /\ \A i \in 1..Len(ids) :
                 /\ ids[i] \notin DOMAIN promote
                 /\ ids[i] \in AllIds(Flat)
            /\ \A i, j \in 1..Len(ids) : i # j => ids[i] # ids[j]

\* an add for a collection whose files a.jpg and A.tif both stand for A.tif:
\* the id of a.jpg is a key of the map and the list holds A.tif once
C22_Witness ==
    \E n \in 1..Len(calls) :
        /\ calls[n].op = "album_add"
        /\ LET files == collections[calls[n].coll].files
               own   == { IndexGet(asset_index, files[k].filename)[1].id :
                            k \in { j \in 1..Len(files) :
                                      IndexGet(asset_index, files[j].filename) # <<>> } }
           IN  /\ own \cap DOMAIN promote # {}
               /\ Cardinality(own) > Len(calls[n].ids)

\* C23: createStack is never called with fewer than two members in all:
\* in every createStack sent, the list of other ids is not empty, holds no
\* id twice, does not hold the primary, and together with the primary is
\* exactly the member set of one stem group.
C23_CreateStackWholeGroup ==
    \A n \in 1..Len(calls) :
        calls[n].op = "stack_create" =>
            LET primary == calls[n].obj
                others  == calls[n].ids
                gs      == Groups
            IN  /\ Len(others) >= 1
                /\ \A i, j \in 1..Len(others) : i # j => others[i] # others[j]
                /\ primary \notin Range(others)
                /\ \E g \in 1..Len(gs) :
                     /\ gs[g].stem = calls[n].stem
                     /\ GroupIds(gs[g].group) = {primary} \cup Range(others)

\* a createStack for a group of three: a primary and two others
C23_Witness ==
    \E n \in 1..Len(calls) : calls[n].op = "stack_create" /\ Len(calls[n].ids) = 2

\* the album requests of a step were all answered without an error
AlbumCallsSucceed(new) ==
    \A n \in 1..Len(new) :
        new[n].op \in {"album_add", "album_get", "album_remove", "album_prune"}
            => new[n].ok

\* C24: after a collection is synced in a run that is no dry run, with the
\* album add, the album fetch and the album remove succeeding, the album
\* holds no asset together with its promotion target: no member c of the
\* album has promote[c] defined and promote[c] in the album too.
C24_NoDuplicateLeft ==
    [][LET new  == NewCalls
           adds == { n \in 1..Len(new) : new[n].op = "album_add" }
       IN  (~dry_run /\ adds # {} /\ AlbumCallsSucceed(new)) =>
               \A a \in adds :
                   LET members == srv_albums'[new[a].obj].assets IN
                   \A c \in members :
                       ~(c \in DOMAIN promote /\ promote[c] \in members)
      ]_vars

\* an add, a fetch and a remove that succeeded one after the other: the
\* album lost a duplicate and kept its promotion target
C24_Witness ==
    /\ ~dry_run
    /\ \E n \in 3..Len(calls) :
         /\ calls[n].op = "album_remove" /\ calls[n].ok
         /\ calls[n - 1].op = "album_get" /\ calls[n - 1].ok
         /\ calls[n - 2].op = "album_add" /\ calls[n - 2].ok
         /\ \E k \in 1..Len(calls[n].ids) :
              LET c == calls[n].ids[k] IN
              /\ c \notin srv_albums[calls[n].obj].assets
              /\ promote[c] \in srv_albums[calls[n].obj].assets

\* the album creates the server accepted
OkCreates == { n \in 1..Len(calls) : calls[n].op = "album_create" /\ calls[n].ok }

\* the albums listed at startup are the first of srv_albums: a created
\* album is appended
ListedAlbums == 1..(Len(srv_albums) - Cardinality(OkCreates))

\* C25: in a run that is no dry run at most one album is successfully
\* created per collection name: no createAlbum is sent for a name that was
\* listed at startup or created earlier in the run, and every add for a
\* collection of that name goes to the one album id of that name.
C25_OneAlbumPerName ==
    ~dry_run =>
        /\ \A n \in 1..Len(calls) :
             calls[n].op = "album_create" =>
                 /\ \A k \in ListedAlbums : srv_albums[k].albumName # calls[n].name
                 /\ \A m \in OkCreates : m < n => calls[m].name # calls[n].name
        /\ \A n \in 1..Len(calls) :
             calls[n].op = "album_add" =>
                 /\ srv_albums[calls[n].obj].albumName = collections[calls[n].coll].name
                 /\ \A m \in 1..(n - 1) :
                      (/\ calls[m].op = "album_add"
                       /\ collections[calls[m].coll].name = collections[calls[n].coll].name)
                          => calls[m].obj = calls[n].obj

\* an album created for one collection took the assets of a later
\* collection of the same name
C25_Witness ==
    /\ ~dry_run
    /\ \E c \in OkCreates :
       \E n, m \in 1..Len(calls) :
         /\ c < n /\ n < m
         /\ calls[n].op = "album_add" /\ calls[n].coll = calls[c].coll
         /\ calls[m].op = "album_add" /\ calls[m].coll # calls[c].coll
         /\ calls[m].obj = calls[n].obj
         /\ calls[n].obj \notin ListedAlbums

====
